---- MODULE Spec2Model ----
(***************************************************************************)
(* Verification model of the pepper editor core.                           *)
(*                                                                         *)
(*   SpecCursor   : CursorCollection and its mutation guard (cursor.rs)    *)
(*   SpecReceiver : ClientEvent framing and ClientEventReceiver (events.rs)*)
(*   Spec         : the server loop run_server (platforms/linux.rs)         *)
(*   SpecContent  : BufferContent, the lines of a buffer (buffer.rs)        *)
(*   SpecBuffer   : Buffer, the content with its History (buffer.rs)        *)
(*   SpecKey      : the text form of a Key and parse_key (events.rs)        *)
(*   SpecQueue    : EditorEventQueue and its two arenas (events.rs)         *)
(***************************************************************************)
EXTENDS Integers, Sequences, FiniteSets, Bags, TLC

VARIABLES
    \* ---- cursor.rs : CursorCollection ----
    cursors,            \* the backing array, indices 0 .. capacity-1
    len,                \* number of live cursors
    main_cursor_index,
    guard,              \* "none" | "open" (a CursorCollectionMutGuard lives) | "panic"
    released            \* history of the last guard release: what sort_and_merge started from

cursorVars == <<cursors, len, main_cursor_index, guard, released>>

VARIABLES
    \* ---- events.rs : ClientEventReceiver, fed by one client connection ----
    bufs,               \* Vec<Vec<u8>>: the per-connection reassembly buffers
    iter,               \* the live ClientEventIter, or NoIter, or how the thread panicked
    wire,               \* bytes the client has written that the server has not read yet
    sent,               \* history: the frames the client serialized, in order
    got,                \* history: the events the iterators have yielded, in order
    batches             \* history: how the batches so far ended

receiverVars == <<bufs, iter, wire, sent, got, batches>>

VARIABLES
    \* ---- platforms/linux.rs : run_server ----
    pc,                     \* "wait" | "events" | "update" | "drain" | "done" (returned)
    client_connections,     \* [Option<UnixStream>; MAX_CLIENT_COUNT]
    client_write_queue,     \* [VecDeque<PooledBuf>; MAX_CLIENT_COUNT], as buffer counts
    processes,              \* [Option<Process>; MAX_PROCESS_COUNT]
    events,                 \* Vec<PlatformEvent>
    timeout,                \* "None" | "Zero" | "Idle" (SERVER_IDLE_DURATION)
    need_redraw,
    previous_timeout,
    epoll_events,           \* triggered epoll events of this wait not yet handled
    epoll_events_len,
    empty_write_event_count,
    requests,               \* application.ctx.platform.requests, being drained
    lent,                   \* buf_pool: buffers acquired and not yet released
    idles,                  \* history: Idle events pushed since the last readiness event (quiet)
                            \* and since the timer was last set to zero (armed)
    quit_released,          \* history: the buffers the Quit handler released
    lifetimes,              \* history: per process slot, its last process's tag and ProcessExit tags
    last_spawn,             \* history: what the SpawnProcess request just handled did
    last_write              \* history: what the WriteToClient or WriteToProcess request just
                            \* handled found

VARIABLES
    \* ---- buffer.rs : a BufferContent on its own ----
    content,            \* lines: Vec<BufferLine>, each line its bytes
    last_call           \* history: the last call on the content, its arguments and result

contentVars == <<content, last_call>>

VARIABLES
    \* ---- buffer.rs : a Buffer with history, whose content is the content above ----
    history,            \* History: committed groups of edits, open group, undone groups
    search_ranges,      \* Vec<BufferRange>
    needs_save,
    enqueued,           \* the events the last call pushed on its EditorEventQueue
    timeline,           \* history: the content at each commit boundary of the history
    edit_calls,         \* history: the calls so far that changed the content by an edit
    word_database       \* WordDatabase: the words added and not removed, each with its count

bufferVars ==
    <<history, search_ranges, needs_save, enqueued, timeline, edit_calls, word_database>>

VARIABLES
    \* ---- events.rs : a Key on its way to text and back, an EditorEventQueue ----
    key_trip,           \* the key, then its text, then what parse_key made of the text
    queue,              \* EditorEventQueue: the read and the write EventQueue
    queue_log           \* history: what was enqueued since the last flip and before it

eventVars == <<key_trip, queue, queue_log>>

VARIABLES
    \* ---- platforms/windows.rs : one AsyncProcess and the input of its child ----
    child_stdin,        \* child.stdin: Option<ChildStdin>, with the bytes the child was sent
    process_call        \* history: the last call on the process, its arguments and result

processVars == <<child_stdin, process_call>>

VARIABLES
    \* ---- buffer.rs : a BufferCollection ----
    buffers,            \* Vec<Buffer>: of each buffer its alive flag, handle and content
    collection_call     \* history: the last call on the collection, its arguments, what it
                        \* returned and the events it enqueued

collectionVars == <<buffers, collection_call>>

VARIABLES
    \* ---- buffer.rs : the Buffer above and the file it is saved to ----
    path,               \* Buffer::path
    can_save,           \* capabilities.can_save
    files               \* the file system: of each path its file's bytes, if there is one

saveVars == <<path, can_save, files>>

VARIABLES
    \* ---- buffer.rs : a tracked position on its way through an insertion and back ----
    shift_trip          \* the position and the range, then the position after insert(range),
                        \* then that position after delete(range)

shiftVars == <<shift_trip>>

VARIABLES
    \* ---- platforms/linux.rs : the epoll events of one iteration of run_server ----
    epoll_array,        \* what epoll.wait returned, in the order of the kernel's array
    array_at,           \* the position in it of the next event the for loop handles
    open_slots,         \* client_connections, of each slot whether it is Some
    pushed_events,      \* events: Vec<PlatformEvent>, each with the position in the array
                        \* of the epoll event that made the loop push it
    update_events       \* what application.update was handed, in the order it got it

dispatchVars == <<epoll_array, array_at, open_slots, pushed_events, update_events>>

VARIABLES
    \* ---- buffer.rs : the insert processes of a BufferCollection ----
    insert_buffers,     \* of each buffer the processes insert into: alive, and its lines
    insert_processes,   \* Vec<InsertProcess>: alive, buffer_handle, position, output
    insert_history,     \* history: of each process the position it was spawned at, the
                        \* bytes it has given, and what was inserted for it
    insert_spawns       \* history: the calls of spawn_insert_process so far

insertVars == <<insert_buffers, insert_processes, insert_history, insert_spawns>>

VARIABLES
    \* ---- plugin-lsp/src/client.rs : the document versions of a Client ----
    versioned_buffers,  \* VersionedBufferCollection::buffers: of each its version and the
                        \* number of its pending edits
    lsp_can_save,       \* of each buffer of the editor, properties.can_save
    lsp_sent,           \* history: of each buffer the didOpen and didChange notifications
                        \* sent since its last didOpen, with their versions
    lsp_event           \* history: the editor event handled last

lspVars == <<versioned_buffers, lsp_can_save, lsp_sent, lsp_event>>

\* the components added last
lateVars == <<dispatchVars, insertVars, lspVars>>

\* the components added after the event queue
restVars == <<processVars, collectionVars, saveVars, shiftVars, lateVars>>

loopVars ==
    <<pc, client_connections, client_write_queue, processes, events, timeout, need_redraw,
      previous_timeout, epoll_events, epoll_events_len, empty_write_event_count, requests,
      lent>>

serverVars == <<loopVars, idles, quit_released, lifetimes, last_spawn, last_write>>

vars ==
    <<cursorVars, receiverVars, serverVars, contentVars, bufferVars, eventVars, restVars>>

\* what the operations of one component leave alone
notCursor == <<receiverVars, serverVars, contentVars, bufferVars, eventVars,
      restVars>>

notReceiver == <<cursorVars, serverVars, contentVars, bufferVars, eventVars,
      restVars>>

notServer == <<cursorVars, receiverVars, contentVars, bufferVars, eventVars,
      restVars>>

notContent == <<cursorVars, receiverVars, serverVars, bufferVars, eventVars,
      restVars>>

notEvents == <<cursorVars, receiverVars, serverVars, contentVars, bufferVars, restVars>>

notRest == <<cursorVars, receiverVars, serverVars, contentVars, bufferVars, eventVars>>

notProcess == <<notRest, collectionVars, saveVars, shiftVars, lateVars>>

notCollection == <<notRest, processVars, saveVars, shiftVars, lateVars>>

notShift == <<notRest, processVars, collectionVars, saveVars, lateVars>>

notLate == <<notRest, processVars, collectionVars, saveVars, shiftVars>>

notDispatch == <<notLate, insertVars, lspVars>>

notInsert == <<notLate, dispatchVars, lspVars>>

notLsp == <<notLate, dispatchVars, insertVars>>

(***************************************************************************)
(* Positions and ranges                                                    *)
(***************************************************************************)

\* u8::MAX scaled down: the capacity of the cursor array and the largest u8.
U8_MAX == 3

\* BufferPosition values <<line_index, column_byte_index>> used by the model.
Positions == { <<0, 0>>, <<0, 1>>, <<1, 0>>, <<2, 0>> }

\* derived Ord of BufferPosition: line first, then column.
PosLE(a, b) == a[1] < b[1] \/ (a[1] = b[1] /\ a[2] <= b[2])

PosLT(a, b) == PosLE(a, b) /\ a # b

PosMax(a, b) == IF PosLE(a, b) THEN b ELSE a

PosMin(a, b) == IF PosLE(a, b) THEN a ELSE b

Cursor == [anchor : Positions, position : Positions]

CursorZero == [anchor |-> <<0, 0>>, position |-> <<0, 0>>]

NewCursor(a, p) == [anchor |-> a, position |-> p]

\* The cursors the guard operations are given: carets on three lines, forward and
\* reversed selections that touch, overlap and nest.
CursorInputs ==
    { NewCursor(<<0, 0>>, <<0, 0>>), NewCursor(<<0, 1>>, <<0, 1>>),
      NewCursor(<<1, 0>>, <<1, 0>>), NewCursor(<<2, 0>>, <<2, 0>>),
      NewCursor(<<0, 0>>, <<0, 1>>), NewCursor(<<0, 1>>, <<0, 0>>),
      NewCursor(<<0, 1>>, <<2, 0>>), NewCursor(<<2, 0>>, <<0, 1>>) }

\* Cursor::to_range = BufferRange::between(anchor, position)
ToRange(c) == [from |-> PosMin(c.anchor, c.position), to |-> PosMax(c.anchor, c.position)]

capacity == U8_MAX

(***************************************************************************)
(* CursorCollection::sort_and_merge                                        *)
(***************************************************************************)

Perms(n) == { p \in [0 .. n - 1 -> 0 .. n - 1] : \A a, b \in 0 .. n - 1 : p[a] = p[b] => a = b }

\* sort_unstable_by_key(|c| c.to_range().from) on cursors[..len]: any arrangement
\* of the slice that is ordered by the key (the order of equal keys is unspecified).
SortOutcomes(arr, n) ==
    { s \in { [k \in DOMAIN arr |-> IF k < n THEN arr[p[k]] ELSE arr[k]] : p \in Perms(n) } :
        \A a, b \in 0 .. n - 1 : a < b => PosLE(ToRange(s[a]).from, ToRange(s[b]).from) }

\* Ordering of a probed key against the target, as binary_search_by sees it.
Cmp(key, target) == IF key = target THEN "Equal" ELSE IF PosLT(key, target) THEN "Less" ELSE "Greater"

RECURSIVE BinarySearchEarly(_, _, _, _)
\* slice::binary_search_by as in std 1.52 .. 1.81: probe the middle of [left, right),
\* return at the first Equal probe; -1 stands for Err.
BinarySearchEarly(arr, target, left, right) ==
    IF left >= right
    THEN -1
    ELSE LET mid == left + ((right - left) \div 2)
             cmp == Cmp(arr[mid].position, target)
         IN  IF cmp = "Less" THEN BinarySearchEarly(arr, target, mid + 1, right)
             ELSE IF cmp = "Greater" THEN BinarySearchEarly(arr, target, left, mid)
             ELSE mid

RECURSIVE BinarySearchBase(_, _, _, _)
\* slice::binary_search_by as in std before 1.52 and from 1.82: halve size keeping
\* base, compare the element at base at the end; -1 stands for Err.
BinarySearchBase(arr, target, base, size) ==
    IF size = 0
    THEN -1
    ELSE IF size = 1
    THEN IF Cmp(arr[base].position, target) = "Equal" THEN base ELSE -1
    ELSE LET half == size \div 2
             mid == base + half
         IN  BinarySearchBase(arr, target,
                              IF Cmp(arr[mid].position, target) = "Greater" THEN base ELSE mid,
                              size - half)

\* binary_search_by_key(&main_cursor.position, |c| c.position).unwrap_or(0) on
\* cursors[..n].  The slice is ordered by range.from, not by position, so the
\* answer is the one of whichever std implementation the build links.
BinarySearchOutcomes(arr, n, target) ==
    { IF r = -1 THEN 0 ELSE r :
        r \in { BinarySearchEarly(arr, target, 0, n), BinarySearchBase(arr, target, 0, n) } }

\* cursors.copy_within(j + 1 .. len, j)
CopyWithin(arr, j, n) ==
    [k \in DOMAIN arr |-> IF k >= j /\ k + 1 < n THEN arr[k + 1] ELSE arr[k]]

RECURSIVE MergeInner(_, _, _, _, _, _)
\* for j in ((i + 1)..len).rev() { ... }  with the range grown so far
MergeInner(arr, n, main, range, i, j) ==
    IF j <= i
    THEN [arr |-> arr, n |-> n, main |-> main, range |-> range]
    ELSE LET other_range == ToRange(arr[j])
         IN  IF PosLE(range.from, other_range.from) /\ PosLE(other_range.from, range.to)
             THEN MergeInner(CopyWithin(arr, j, n), n - 1,
                             IF j <= main THEN main - 1 ELSE main,
                             [range EXCEPT !.to = PosMax(range.to, other_range.to)],
                             i, j - 1)
             ELSE MergeInner(arr, n, main, range, i, j - 1)

\* mutant: the merged cursor is always written anchor-first
OrientForward(cursor, range) == [anchor |-> range.from, position |-> range.to]

\* the orientation of the cursor at i is kept for the merged range
Orient(cursor, range) ==
    IF PosLE(cursor.anchor, cursor.position)
    THEN [anchor |-> range.from, position |-> range.to]
    ELSE [anchor |-> range.to, position |-> range.from]

RECURSIVE MergeOuter(_, _, _, _)
\* while i < self.len { ... i += 1 }
MergeOuter(arr, n, main, i) ==
    IF i >= n
    THEN [arr |-> arr, n |-> n, main |-> main]
    ELSE LET r == MergeInner(arr, n, main, ToRange(arr[i]), i, n - 1)
         IN  MergeOuter([r.arr EXCEPT ![i] = Orient(r.arr[i], r.range)], r.n, r.main, i + 1)

(***************************************************************************)
(* CursorCollectionMutGuard                                                *)
(***************************************************************************)

NoRelease == [happened |-> FALSE]

CursorInit ==
    /\ cursors = [k \in 0 .. capacity - 1 |-> CursorZero]
    /\ len = 1
    /\ main_cursor_index = 0
    /\ guard = "none"
    /\ released = NoRelease

\* CursorCollection::mut_guard
MutGuard ==
    /\ guard = "none"
    /\ guard' = "open"
    /\ released' = NoRelease
    /\ UNCHANGED <<cursors, len, main_cursor_index, notCursor>>

\* CursorCollectionMutGuard::clear
GuardClear ==
    /\ guard = "open"
    /\ len' = 0
    /\ UNCHANGED <<cursors, main_cursor_index, guard, released, notCursor>>

\* CursorCollectionMutGuard::add ; len.checked_add(1) fails only at u8::MAX
GuardAdd(cursor) ==
    /\ guard = "open"
    /\ IF len + 1 <= U8_MAX
       THEN /\ cursors' = [cursors EXCEPT ![len] = cursor]
            /\ main_cursor_index' = len
            /\ len' = len + 1
       ELSE UNCHANGED <<cursors, main_cursor_index, len>>
    /\ UNCHANGED <<guard, released, notCursor>>

\* CursorCollectionMutGuard::set_main_cursor_index ; index.min(capacity()) as u8
GuardSetMainCursorIndex(index) ==
    /\ guard = "open"
    /\ main_cursor_index' = IF index < capacity THEN index ELSE capacity
    /\ UNCHANGED <<cursors, len, guard, released, notCursor>>

\* IndexMut<usize> for CursorCollectionMutGuard : guard[index] = cursor
GuardIndexMut(index, cursor) ==
    /\ guard = "open"
    /\ cursors' = [cursors EXCEPT ![index] = cursor]
    /\ UNCHANGED <<len, main_cursor_index, guard, released, notCursor>>

\* The state sort_and_merge starts from: an empty collection gets the zero cursor back.
Reinstated ==
    IF len = 0
    THEN [arr |-> [cursors EXCEPT ![0] = CursorZero], n |-> 1, main |-> 0]
    ELSE [arr |-> cursors, n |-> len, main |-> main_cursor_index]

\* Drop for CursorCollectionMutGuard, sort_and_merge included.  Reading
\* cursors[main_cursor_index] past the array panics; the collection is then left
\* as the drop found it.
GuardDrop ==
    /\ guard = "open"
    /\ UNCHANGED notCursor
    /\ LET st == Reinstated
       IN  IF st.main >= capacity
           THEN /\ guard' = "panic"
                /\ cursors' = st.arr
                /\ len' = st.n
                /\ main_cursor_index' = st.main
                /\ released' = [happened |-> TRUE, emptied |-> len = 0, panicked |-> TRUE]
           ELSE \E s \in SortOutcomes(st.arr, st.n) :
                \E found \in BinarySearchOutcomes(s, st.n, st.arr[st.main].position) :
                    LET r == MergeOuter(s, st.n, found, 0)
                    IN  /\ cursors' = r.arr
                        /\ len' = r.n
                        /\ main_cursor_index' = r.main
                        /\ guard' = "none"
                        /\ released' = [happened |-> TRUE, emptied |-> len = 0,
                                        panicked |-> FALSE,
                                        sorted |-> s, n |-> st.n, main |-> st.main,
                                        main_cursor |-> st.arr[st.main]]

CursorNext ==
    \/ MutGuard
    \/ GuardClear
    \/ \E c \in CursorInputs : GuardAdd(c)
    \/ \E i \in 0 .. capacity + 1 : GuardSetMainCursorIndex(i)
    \/ \E i \in 0 .. capacity - 1 : \E c \in CursorInputs : GuardIndexMut(i, c)
    \/ GuardDrop


(***************************************************************************)
(* Binary framing (little endian, u32 length prefixes)                     *)
(***************************************************************************)

Ok(v, o) == [st |-> "Ok", v |-> v, o |-> o]

Eof == [st |-> "Eof"]

InvalidData == [st |-> "Invalid"]

U16Bytes(n) == << n % 256, (n \div 256) % 256 >>

U32Bytes(n) == << n % 256, (n \div 256) % 256, (n \div 65536) % 256, (n \div 16777216) % 256 >>

BytesWithLen(bytes) == U32Bytes(Len(bytes)) \o bytes

ReadU8(s, o) == IF o + 1 <= Len(s) THEN Ok(s[o + 1], o + 1) ELSE Eof

ReadU16(s, o) == IF o + 2 <= Len(s) THEN Ok(s[o + 1] + 256 * s[o + 2], o + 2) ELSE Eof

ReadU32(s, o) ==
    IF o + 4 <= Len(s)
    THEN Ok(s[o + 1] + 256 * s[o + 2] + 65536 * s[o + 3] + 16777216 * s[o + 4], o + 4)
    ELSE Eof

\* char travels as u32; values that are no unicode scalar are invalid data
ReadChar(s, o) ==
    LET r == ReadU32(s, o)
    IN  IF r.st # "Ok" THEN r
        ELSE IF r.v > 1114111 \/ (r.v >= 55296 /\ r.v <= 57343) THEN InvalidData
        ELSE r

ReadBytes(s, o) ==
    LET r == ReadU32(s, o)
    IN  IF r.st # "Ok" THEN r
        ELSE IF r.o + r.v <= Len(s) THEN Ok(SubSeq(s, r.o + 1, r.o + r.v), r.o + r.v)
        ELSE Eof

\* &str: the bytes must be utf-8 (the model's texts are ascii; any other byte is rejected)
ReadStr(s, o) ==
    LET r == ReadBytes(s, o)
    IN  IF r.st # "Ok" THEN r
        ELSE IF \E k \in 1 .. Len(r.v) : r.v[k] >= 128 THEN InvalidData
        ELSE r

(***************************************************************************)
(* TargetClient, Key and ClientEvent (de)serialization                     *)
(***************************************************************************)

\* key variants in discriminant order, see serialize_key
KeyNames ==
    << "None", "Backspace", "Enter", "Left", "Right", "Up", "Down", "Home", "End",
       "PageUp", "PageDown", "Tab", "Delete", "F", "Char", "Ctrl", "Alt", "Esc" >>

KeyDiscriminant(name) == (CHOOSE d \in 1 .. Len(KeyNames) : KeyNames[d] = name) - 1

SerializeTarget(target) == IF target = "Sender" THEN <<0>> ELSE <<1>>

ReadTarget(s, o) ==
    LET r == ReadU8(s, o)
    IN  IF r.st # "Ok" THEN r
        ELSE IF r.v = 0 THEN Ok("Sender", r.o)
        ELSE IF r.v = 1 THEN Ok("Focused", r.o)
        ELSE InvalidData

SerializeKey(key) ==
    IF key.k = "F" THEN <<13, key.n>>
    ELSE IF key.k \in {"Char", "Ctrl", "Alt"} THEN <<KeyDiscriminant(key.k)>> \o U32Bytes(key.c)
    ELSE <<KeyDiscriminant(key.k)>>

ReadKey(s, o) ==
    LET d == ReadU8(s, o)
    IN  IF d.st # "Ok" THEN d
        ELSE IF d.v > 17 THEN InvalidData
        ELSE IF d.v = 13
        THEN LET n == ReadU8(s, d.o)
             IN  IF n.st # "Ok" THEN n ELSE Ok([k |-> "F", n |-> n.v], n.o)
        ELSE IF d.v \in {14, 15, 16}
        THEN LET c == ReadChar(s, d.o)
             IN  IF c.st # "Ok" THEN c ELSE Ok([k |-> KeyNames[d.v + 1], c |-> c.v], c.o)
        ELSE Ok([k |-> KeyNames[d.v + 1]], d.o)

\* ClientEvent::serialize
SerializeClientEvent(e) ==
    IF e.type = "Key" THEN <<0>> \o SerializeTarget(e.target) \o SerializeKey(e.key)
    ELSE IF e.type = "Resize" THEN <<1>> \o U16Bytes(e.width) \o U16Bytes(e.height)
    ELSE IF e.type = "Command" THEN <<2>> \o SerializeTarget(e.target) \o BytesWithLen(e.command)
    ELSE <<3>> \o SerializeTarget(e.target) \o BytesWithLen(e.bytes)

\* ClientEvent::deserialize on the slice s[o..]
ReadClientEvent(s, o) ==
    LET d == ReadU8(s, o)
        target == ReadTarget(s, d.o)
    IN  IF d.st # "Ok" THEN d
        ELSE IF d.v = 0
        THEN IF target.st # "Ok" THEN target
             ELSE LET key == ReadKey(s, target.o)
                  IN  IF key.st # "Ok" THEN key
                      ELSE Ok([type |-> "Key", target |-> target.v, key |-> key.v], key.o)
        ELSE IF d.v = 1
        THEN LET width == ReadU16(s, d.o)
             IN  IF width.st # "Ok" THEN width
                 ELSE LET height == ReadU16(s, width.o)
                      IN  IF height.st # "Ok" THEN height
                          ELSE Ok([type |-> "Resize", width |-> width.v, height |-> height.v],
                                  height.o)
        ELSE IF d.v = 2
        THEN IF target.st # "Ok" THEN target
             ELSE LET command == ReadStr(s, target.o)
                  IN  IF command.st # "Ok" THEN command
                      ELSE Ok([type |-> "Command", target |-> target.v,
                               command |-> command.v], command.o)
        ELSE IF d.v = 3
        THEN IF target.st # "Ok" THEN target
             ELSE LET bytes == ReadBytes(s, target.o)
                  IN  IF bytes.st # "Ok" THEN bytes
                      ELSE Ok([type |-> "StdinInput", target |-> target.v,
                               bytes |-> bytes.v], bytes.o)
        ELSE InvalidData

(***************************************************************************)
(* ClientEventReceiver and ClientEventIter                                 *)
(***************************************************************************)

\* number of frames one client writes
MaxFrames == 2

\* client handles the connection may have
MaxHandle == 1

\* The events a client serializes.
EventInputs ==
    { [type |-> "Key", target |-> "Sender", key |-> [k |-> "Char", c |-> 120]],
      [type |-> "Key", target |-> "Focused", key |-> [k |-> "F", n |-> 12]],
      [type |-> "Key", target |-> "Sender", key |-> [k |-> "Esc"]],
      [type |-> "Resize", width |-> 300, height |-> 24],
      [type |-> "Command", target |-> "Focused", command |-> <<113>>],
      [type |-> "StdinInput", target |-> "Sender", bytes |-> <<255, 0>>] }

\* Byte strings on the wire that are no serialized event: an unknown event
\* discriminant, and a key event with an unknown key discriminant.
CorruptInputs == { [type |-> "Corrupt", raw |-> <<9>>], [type |-> "Corrupt", raw |-> <<0, 0, 99>>] }

FrameBytes(f) == IF f.type = "Corrupt" THEN f.raw ELSE SerializeClientEvent(f)

RECURSIVE Concat(_)
Concat(frames) ==
    IF frames = << >> THEN << >> ELSE FrameBytes(Head(frames)) \o Concat(Tail(frames))

FrameSeqs == UNION { [1 .. n -> EventInputs \cup CorruptInputs] : n \in 0 .. MaxFrames }

NoIter == [live |-> FALSE]

ReceiverIdle ==
    /\ bufs = << >>
    /\ iter = NoIter
    /\ wire = << >>
    /\ sent = << >>
    /\ got = << >>
    /\ batches = [handle |-> 0, early |-> FALSE, partial |-> FALSE, invalid |-> FALSE]

\* ClientEventReceiver::default, and a client that has written its frames
ReceiverInit ==
    /\ bufs = << >>
    /\ iter = NoIter
    /\ sent \in FrameSeqs
    /\ wire = Concat(sent)
    /\ got = << >>
    /\ batches \in [handle : 0 .. MaxHandle, early : {FALSE}, partial : {FALSE},
                   invalid : {FALSE}]

\* bufs.resize_with(buf_index + 1, Vec::new) when buf_index >= bufs.len()
ResizeWith(v, buf_index) ==
    IF buf_index >= Len(v)
    THEN v \o [k \in 1 .. buf_index + 1 - Len(v) |-> << >>]
    ELSE v

\* receive_events that overwrites the connection's buffer instead of extending it
ReceiveEventsOverwriting(n) ==
    /\ iter = NoIter
    /\ n >= 1 /\ n <= Len(wire)
    /\ LET buf_index == batches.handle
           grown == ResizeWith(bufs, buf_index)
       IN  /\ bufs' = [grown EXCEPT ![buf_index + 1] = SubSeq(wire, 1, n)]
           /\ iter' = [live |-> TRUE, buf_index |-> buf_index, read_len |-> 0, last |-> "Start"]
    /\ wire' = SubSeq(wire, n + 1, Len(wire))
    /\ UNCHANGED <<sent, got, batches, notReceiver>>

\* ClientEventReceiver::receive_events with the next n bytes the connection delivers
ReceiveEvents(n) ==
    /\ iter = NoIter
    /\ n >= 1 /\ n <= Len(wire)
    /\ LET buf_index == batches.handle
           grown == ResizeWith(bufs, buf_index)
       IN  /\ bufs' = [grown EXCEPT ![buf_index + 1] = @ \o SubSeq(wire, 1, n)]
           /\ iter' = [live |-> TRUE, buf_index |-> buf_index, read_len |-> 0, last |-> "Start"]
    /\ wire' = SubSeq(wire, n + 1, Len(wire))
    /\ UNCHANGED <<sent, got, batches, notReceiver>>

\* what ClientEventIter::next finds at read_len
NextResult ==
    LET buf == bufs[iter.buf_index + 1]
    IN  IF iter.read_len >= Len(buf) THEN [st |-> "Empty"] ELSE ReadClientEvent(buf, iter.read_len)

\* ClientEventIter::next
IterNext ==
    /\ iter.live
    /\ LET r == NextResult
       IN  IF r.st = "Ok"
           THEN /\ iter' = [iter EXCEPT !.read_len = r.o, !.last = "Ok"]
                /\ got' = Append(got, r.v)
           ELSE /\ iter' = [iter EXCEPT !.last = r.st]
                /\ UNCHANGED got
    /\ UNCHANGED <<bufs, wire, sent, batches, notReceiver>>

\* ClientEventIter::finish : bufs[buf_index].drain(..read_len), which panics
\* on an index or a range outside the buffers; mem::forget keeps Drop from
\* running
IterFinish ==
    /\ iter.live
    /\ IF iter.buf_index < Len(bufs) /\ iter.read_len <= Len(bufs[iter.buf_index + 1])
       THEN /\ bufs' = [bufs EXCEPT
                   ![iter.buf_index + 1] = SubSeq(@, iter.read_len + 1, Len(@))]
            /\ batches' = [batches EXCEPT !.early = iter.last \in {"Start", "Ok"},
                                          !.partial = @ \/ iter.last = "Eof",
                                          !.invalid = @ \/ iter.last = "Invalid"]
            /\ iter' = NoIter
       ELSE /\ iter' = [live |-> FALSE, panicked |-> "finish"]
            /\ UNCHANGED <<bufs, batches>>
    /\ UNCHANGED <<wire, sent, got, notReceiver>>

\* a Drop for ClientEventIter that does nothing
IterDropSilently ==
    /\ iter.live
    /\ iter' = NoIter
    /\ UNCHANGED <<bufs, wire, sent, got, batches, notReceiver>>

\* Drop for ClientEventIter: the iterator goes out of scope without finish
IterDrop ==
    /\ iter.live
    /\ iter' = [live |-> FALSE, panicked |-> "drop"]
    /\ UNCHANGED <<bufs, wire, sent, got, batches, notReceiver>>

ReceiverNext ==
    \/ \E n \in 1 .. Len(wire) : ReceiveEvents(n)
    \/ IterNext
    \/ IterFinish
    \/ IterDrop

(***************************************************************************)
(* The server loop: run_server                                             *)
(***************************************************************************)

\* table sizes of run_server, scaled down
MAX_CLIENT_COUNT == 1

MAX_PROCESS_COUNT == 2

MAX_TRIGGERED_EVENT_COUNT == 2

\* requests the editor enqueues in one update
MaxRequests == 2

\* buffers one client write queue holds
MaxQueue == 2

\* process tags the editor uses
Tags == {"t1", "t2"}

ClientHandles == 0 .. MAX_CLIENT_COUNT - 1

ProcessHandles == 0 .. MAX_PROCESS_COUNT - 1

NONE_PROCESS == [some |-> FALSE]

\* Process::new(child, tag, buf_len)
NewProcess(tag) == [some |-> TRUE, tag |-> tag]

Idle == [type |-> "Idle"]

ConnectionOpen(handle) == [type |-> "ConnectionOpen", handle |-> handle]

ConnectionOutput(handle) == [type |-> "ConnectionOutput", handle |-> handle]

ConnectionClose(handle) == [type |-> "ConnectionClose", handle |-> handle]

ProcessSpawned(tag, handle) == [type |-> "ProcessSpawned", tag |-> tag, handle |-> handle]

ProcessOutput(tag) == [type |-> "ProcessOutput", tag |-> tag]

ProcessExit(tag) == [type |-> "ProcessExit", tag |-> tag]

\* pooled buffers an event carries
EventBufs(e) == IF e.type \in {"ConnectionOutput", "ProcessOutput"} THEN 1 ELSE 0

\* pooled buffers a request carries
RequestBufs(r) == IF r.type \in {"WriteToClient", "WriteToProcess"} THEN 1 ELSE 0

RECURSIVE Sum(_)
Sum(nums) == IF nums = << >> THEN 0 ELSE Head(nums) + Sum(Tail(nums))

NoSpawn == [happened |-> FALSE]

NoWrite == [happened |-> FALSE]

\* history of a process slot that never held a process
NoLifetime == [spawned |-> FALSE]

ServerInit ==
    /\ pc = "wait"
    /\ client_connections = [i \in ClientHandles |-> FALSE]
    /\ client_write_queue = [i \in ClientHandles |-> 0]
    /\ processes = [i \in ProcessHandles |-> NONE_PROCESS]
    /\ events = << >>
    /\ timeout = "None"
    /\ need_redraw = FALSE
    /\ previous_timeout = "None"
    /\ epoll_events = {}
    /\ epoll_events_len = 0
    /\ empty_write_event_count = 0
    /\ requests = << >>
    /\ lent = 0
    /\ idles = [quiet |-> 0, armed |-> 0]
    /\ quit_released = [queued |-> 0, pending |-> 0]
    /\ lifetimes = [i \in ProcessHandles |-> NoLifetime]
    /\ last_spawn = NoSpawn
    /\ last_write = NoWrite

\* the (read, write, index) triples epoll.wait can report
Triggers ==
    {[kind |-> "listener"]}
        \cup [kind : {"client"}, index : ClientHandles, read : BOOLEAN, write : BOOLEAN]
        \cup [kind : {"process"}, index : ProcessHandles]

\* the file descriptor behind a triple is registered with epoll
Registered(e) ==
    CASE e.kind = "listener" -> TRUE
      [] e.kind = "client" -> client_connections[e.index]
      [] e.kind = "process" -> processes[e.index].some

SameFd(a, b) ==
    a.kind = b.kind /\ (a.kind = "listener" \/ a.index = b.index)

\* the match on a timeout that expired with no epoll event, keeping the idle
\* duration after the Idle event
ExpiredKeepingTimer(t) ==
    IF t = "Zero"
    THEN [timeout |-> "Idle", idle |-> FALSE]
    ELSE [timeout |-> "Idle", idle |-> TRUE]

\* the match on a timeout that expired with no epoll event: the next timeout,
\* and whether PlatformEvent::Idle is pushed
Expired(t) ==
    IF t = "Zero"
    THEN [timeout |-> "Idle", idle |-> FALSE]
    ELSE [timeout |-> "None", idle |-> TRUE]

\* one more Idle in a history count (the counts stop at 2)
Counted(n) == IF n < 2 THEN n + 1 ELSE n

\* an epoll.wait whose match leaves the timeout alone when events were
\* returned
WaitKeepingTimeout(T) ==
    /\ pc = "wait"
    /\ Cardinality(T) <= MAX_TRIGGERED_EVENT_COUNT
    /\ \A a, b \in T : SameFd(a, b) => a = b
    /\ timeout = "None" => T # {}
    /\ previous_timeout' = timeout
    /\ epoll_events' = T
    /\ epoll_events_len' = Cardinality(T)
    /\ IF T # {}
       THEN /\ UNCHANGED timeout
            /\ idles' = [quiet |-> 0, armed |-> 0]
            /\ UNCHANGED events
       ELSE /\ timeout' = Expired(timeout).timeout
            /\ events' = IF Expired(timeout).idle THEN Append(events, Idle) ELSE events
            /\ idles' = IF Expired(timeout).idle
                         THEN [quiet |-> Counted(idles.quiet), armed |-> Counted(idles.armed)]
                         ELSE idles
    /\ empty_write_event_count' = 0
    /\ pc' = "events"
    /\ last_spawn' = NoSpawn
    /\ last_write' = NoWrite
    /\ UNCHANGED <<client_connections, client_write_queue, processes, need_redraw, requests,
                   lent, quit_released, lifetimes, notServer>>

\* epoll.wait(timeout) returning T, and the match on epoll_events_len
Wait(T) ==
    /\ pc = "wait"
    /\ Cardinality(T) <= MAX_TRIGGERED_EVENT_COUNT
    /\ \A a, b \in T : SameFd(a, b) => a = b
    /\ timeout = "None" => T # {}
    /\ previous_timeout' = timeout
    /\ epoll_events' = T
    /\ epoll_events_len' = Cardinality(T)
    /\ IF T # {}
       THEN /\ timeout' = "Zero"
            /\ idles' = [quiet |-> 0, armed |-> 0]
            /\ UNCHANGED events
       ELSE /\ timeout' = Expired(timeout).timeout
            /\ events' = IF Expired(timeout).idle THEN Append(events, Idle) ELSE events
            /\ idles' = IF Expired(timeout).idle
                         THEN [quiet |-> Counted(idles.quiet), armed |-> Counted(idles.armed)]
                         ELSE idles
    /\ empty_write_event_count' = 0
    /\ pc' = "events"
    /\ last_spawn' = NoSpawn
    /\ last_write' = NoWrite
    /\ UNCHANGED <<client_connections, client_write_queue, processes, need_redraw, requests,
                   lent, quit_released, lifetimes, notServer>>

\* first of the vacant slots of a table, or -1
FirstFree(free) ==
    IF free # {} THEN CHOOSE i \in free : \A k \in free : i <= k ELSE -1

\* listener.accept() that hands a full table's first slot to the new connection
AcceptEvicting(e) ==
    /\ pc = "events"
    /\ e \in epoll_events /\ e.kind = "listener"
    /\ LET i == FirstFree({k \in ClientHandles : ~ client_connections[k]})
           slot == IF i >= 0 THEN i ELSE 0
       IN  /\ client_connections' = [client_connections EXCEPT ![slot] = TRUE]
           /\ events' = Append(events, ConnectionOpen(slot))
    /\ epoll_events' = epoll_events \ {e}
    /\ UNCHANGED <<pc, client_write_queue, processes, timeout, need_redraw, previous_timeout,
                   epoll_events_len, empty_write_event_count, requests, lent, idles, quit_released,
                   lifetimes, last_spawn, last_write, notServer>>

\* listener.accept() and the scan for a free client slot
Accept(e) ==
    /\ pc = "events"
    /\ e \in epoll_events /\ e.kind = "listener"
    /\ LET i == FirstFree({k \in ClientHandles : ~ client_connections[k]})
       IN  IF i >= 0
           THEN /\ client_connections' = [client_connections EXCEPT ![i] = TRUE]
                /\ events' = Append(events, ConnectionOpen(i))
           ELSE UNCHANGED <<client_connections, events>>
    /\ epoll_events' = epoll_events \ {e}
    /\ UNCHANGED <<pc, client_write_queue, processes, timeout, need_redraw, previous_timeout,
                   epoll_events_len, empty_write_event_count, requests, lent, idles, quit_released,
                   lifetimes, last_spawn, last_write, notServer>>

\* write_to_connection on a queue of q buffers: how many buffers it released,
\* how many it left queued, and whether it returned Ok
WriteToConnection(q) ==
    {[released |-> k, left |-> q - k, ok |-> TRUE] : k \in 0 .. q}
        \cup {[released |-> k, left |-> q - k, ok |-> FALSE] : k \in 0 .. q}

\* a ProcessExit { tag } pushed for the process in slot index
Exited(index, tag) == [lifetimes EXCEPT ![index].exits = Append(@, tag)]

\* an epoll event of a client connection, where a failed write removes the
\* connection and pushes nothing
ClientReadySilentClose(e) ==
    /\ pc = "events"
    /\ e \in epoll_events /\ e.kind = "client"
    /\ LET index == e.index
           reading == client_connections[index] /\ e.read
       IN  \E read_ok \in BOOLEAN :
           \E w \in WriteToConnection(client_write_queue[index]) :
               LET read_closed == reading /\ ~ read_ok
                   events1 ==
                       IF ~ reading THEN events
                       ELSE IF read_ok THEN Append(events, ConnectionOutput(index))
                       ELSE Append(events, ConnectionClose(index))
                   writing ==
                       /\ client_connections[index] /\ ~ read_closed
                       /\ e.write /\ client_write_queue[index] # 0
                   queue1 == IF writing THEN w.left ELSE client_write_queue[index]
               IN  /\ reading \/ read_ok
                   /\ writing \/ (w.ok /\ w.released = 0)
                   /\ client_connections' =
                          [client_connections EXCEPT
                              ![index] = @ /\ ~ read_closed /\ ~ (writing /\ ~ w.ok)]
                   /\ client_write_queue' = [client_write_queue EXCEPT ![index] = queue1]
                   /\ events' = events1
                   /\ lent' = lent + (IF reading /\ read_ok THEN 1 ELSE 0)
                                   - (IF writing THEN w.released ELSE 0)
                   /\ empty_write_event_count' =
                          IF ~ e.read /\ e.write /\ queue1 = 0
                          THEN empty_write_event_count + 1
                          ELSE empty_write_event_count
    /\ epoll_events' = epoll_events \ {e}
    /\ UNCHANGED <<pc, processes, timeout, need_redraw, previous_timeout, epoll_events_len,
                   requests, idles, quit_released, lifetimes, last_spawn, last_write, notServer>>

\* an epoll event of a client connection
ClientReady(e) ==
    /\ pc = "events"
    /\ e \in epoll_events /\ e.kind = "client"
    /\ LET index == e.index
           reading == client_connections[index] /\ e.read
       IN  \E read_ok \in BOOLEAN :
           \E w \in WriteToConnection(client_write_queue[index]) :
               LET read_closed == reading /\ ~ read_ok
                   events1 ==
                       IF ~ reading THEN events
                       ELSE IF read_ok THEN Append(events, ConnectionOutput(index))
                       ELSE Append(events, ConnectionClose(index))
                   writing ==
                       /\ client_connections[index] /\ ~ read_closed
                       /\ e.write /\ client_write_queue[index] # 0
                   queue1 == IF writing THEN w.left ELSE client_write_queue[index]
               IN  /\ reading \/ read_ok
                   /\ writing \/ (w.ok /\ w.released = 0)
                   /\ client_connections' =
                          [client_connections EXCEPT
                              ![index] = @ /\ ~ read_closed /\ ~ (writing /\ ~ w.ok)]
                   /\ client_write_queue' = [client_write_queue EXCEPT ![index] = queue1]
                   /\ events' =
                          IF writing /\ ~ w.ok
                          THEN Append(events1, ConnectionClose(index))
                          ELSE events1
                   /\ lent' = lent + (IF reading /\ read_ok THEN 1 ELSE 0)
                                   - (IF writing THEN w.released ELSE 0)
                   /\ empty_write_event_count' =
                          IF ~ e.read /\ e.write /\ queue1 = 0
                          THEN empty_write_event_count + 1
                          ELSE empty_write_event_count
    /\ epoll_events' = epoll_events \ {e}
    /\ UNCHANGED <<pc, processes, timeout, need_redraw, previous_timeout, epoll_events_len,
                   requests, idles, quit_released, lifetimes, last_spawn, last_write, notServer>>

\* an epoll event of a process pipe
ProcessReady(e) ==
    /\ pc = "events"
    /\ e \in epoll_events /\ e.kind = "process"
    /\ LET index == e.index
           process == processes[index]
       IN  IF ~ process.some
           THEN UNCHANGED <<processes, events, lent, lifetimes>>
           ELSE \E result \in {"None", "Some", "Err"} :
                /\ IF result = "None"
                   THEN UNCHANGED <<processes, events, lent, lifetimes>>
                   ELSE IF result = "Some"
                   THEN /\ events' = Append(events, ProcessOutput(process.tag))
                        /\ lent' = lent + 1
                        /\ UNCHANGED <<processes, lifetimes>>
                   ELSE /\ processes' = [processes EXCEPT ![index] = NONE_PROCESS]
                        /\ events' = Append(events, ProcessExit(process.tag))
                        /\ lifetimes' = Exited(index, process.tag)
                        /\ UNCHANGED lent
    /\ epoll_events' = epoll_events \ {e}
    /\ UNCHANGED <<pc, client_connections, client_write_queue, timeout, need_redraw,
                   previous_timeout, epoll_events_len, empty_write_event_count, requests,
                   idles, quit_released, last_spawn, last_write, notServer>>

Quit == [type |-> "Quit"]

Redraw == [type |-> "Redraw"]

\* the requests the editor may enqueue
RequestInputs ==
    {Quit, Redraw}
        \cup [type : {"WriteToClient", "CloseClient"}, handle : ClientHandles]
        \cup [type : {"SpawnProcess"}, tag : Tags]
        \cup [type : {"WriteToProcess", "CloseProcessInput", "KillProcess"},
              handle : ProcessHandles]

\* locals of one loop iteration: previous_timeout, epoll_events_len,
\* empty_write_event_count
LoopLocals == <<previous_timeout, epoll_events_len, empty_write_event_count>>

\* continue, or the end of the loop body: the locals go out of scope
NextIteration ==
    /\ pc' = "wait"
    /\ previous_timeout' = "None"
    /\ epoll_events_len' = 0
    /\ empty_write_event_count' = 0

\* the editor has been handed every ProcessExit pushed so far: the history of
\* the processes that exited is dropped
Reported ==
    [i \in ProcessHandles |->
        IF lifetimes[i].spawned /\ lifetimes[i].exits # << >> THEN NoLifetime ELSE lifetimes[i]]

\* the checks after the epoll events, where only empty write events end the
\* iteration without putting the previous timeout back
UpdateKeepingZero ==
    /\ pc = "events"
    /\ epoll_events = {}
    /\ IF empty_write_event_count > 0 /\ empty_write_event_count = epoll_events_len
       THEN /\ NextIteration
            /\ UNCHANGED <<events, timeout, need_redraw, lent, lifetimes>>
       ELSE IF events = << >> /\ ~ need_redraw
       THEN /\ NextIteration
            /\ UNCHANGED <<events, timeout, need_redraw, lent, lifetimes>>
       ELSE /\ need_redraw' = FALSE
            /\ events' = << >>
            /\ lent' = lent - Sum([k \in DOMAIN events |-> EventBufs(events[k])])
            /\ lifetimes' = Reported
            /\ pc' = "update"
            /\ UNCHANGED <<timeout, LoopLocals>>
    /\ last_spawn' = NoSpawn
    /\ last_write' = NoWrite
    /\ UNCHANGED <<client_connections, client_write_queue, processes, epoll_events, requests,
                   idles, quit_released, notServer>>

\* the checks after the epoll events, then application.update(events.drain(..)):
\* the editor takes the events and releases the buffers they carry
Update ==
    /\ pc = "events"
    /\ epoll_events = {}
    /\ IF empty_write_event_count > 0 /\ empty_write_event_count = epoll_events_len
       THEN /\ timeout' = previous_timeout
            /\ NextIteration
            /\ UNCHANGED <<events, need_redraw, lent, lifetimes>>
       ELSE IF events = << >> /\ ~ need_redraw
       THEN /\ NextIteration
            /\ UNCHANGED <<events, timeout, need_redraw, lent, lifetimes>>
       ELSE /\ need_redraw' = FALSE
            /\ events' = << >>
            /\ lent' = lent - Sum([k \in DOMAIN events |-> EventBufs(events[k])])
            /\ lifetimes' = Reported
            /\ pc' = "update"
            /\ UNCHANGED <<timeout, LoopLocals>>
    /\ last_spawn' = NoSpawn
    /\ last_write' = NoWrite
    /\ UNCHANGED <<client_connections, client_write_queue, processes, epoll_events, requests,
                   idles, quit_released, notServer>>

\* the editor, inside application.update, enqueues a platform request; a
\* request that carries a buffer acquired it from the pool
Enqueue(request) ==
    /\ pc = "update"
    /\ Len(requests) < MaxRequests
    /\ request.type = "WriteToClient" =>
           client_write_queue[request.handle]
               + Cardinality({k \in DOMAIN requests : requests[k] = request}) < MaxQueue
    /\ requests' = Append(requests, request)
    /\ lent' = lent + RequestBufs(request)
    /\ UNCHANGED <<pc, client_connections, client_write_queue, processes, events, timeout,
                   need_redraw, LoopLocals, epoll_events, idles, quit_released, lifetimes, last_spawn,
                   last_write, notServer>>

\* application.update returned: requests.drain(); with no request the loop
\* body ends (events is empty)
Drain ==
    /\ pc = "update"
    /\ IF requests = << >> THEN NextIteration ELSE pc' = "drain" /\ UNCHANGED LoopLocals
    /\ UNCHANGED <<client_connections, client_write_queue, processes, events, timeout,
                   need_redraw, epoll_events, requests, lent, idles, quit_released, lifetimes,
                   last_spawn, last_write, notServer>>

\* requests taken from the back of the queue: the head request stays in front
AfterRequestFromBack(t, evs) ==
    /\ requests' = SubSeq(requests, 1, Len(requests) - 1)
    /\ events' = evs
    /\ IF Tail(requests) = << >>
       THEN NextIteration /\ timeout' = IF evs # << >> THEN "Zero" ELSE t
       ELSE pc' = "drain" /\ timeout' = t /\ UNCHANGED LoopLocals
    /\ idles' = IF t # timeout \/ (Tail(requests) = << >> /\ evs # << >>)
                 THEN [idles EXCEPT !.armed = 0]
                 ELSE idles

\* the end of the drain without the check of the event list: the timeout stays what the handlers left
AfterRequestKeepingTimeout(t, evs) ==
    /\ requests' = Tail(requests)
    /\ events' = evs
    /\ IF Tail(requests) = << >>
       THEN NextIteration /\ timeout' = t
       ELSE pc' = "drain" /\ timeout' = t /\ UNCHANGED LoopLocals
    /\ idles' = IF t # timeout \/ (Tail(requests) = << >> /\ evs # << >>)
                 THEN [idles EXCEPT !.armed = 0]
                 ELSE idles

\* requests.next() took the head request; evs is the event list and t the
\* timeout its handler leaves; after the last request a non-empty event list
\* sets the timeout to zero
AfterRequest(t, evs) ==
    /\ requests' = Tail(requests)
    /\ events' = evs
    /\ IF Tail(requests) = << >>
       THEN NextIteration /\ timeout' = IF evs # << >> THEN "Zero" ELSE t
       ELSE pc' = "drain" /\ timeout' = t /\ UNCHANGED LoopLocals
    /\ idles' = IF t # timeout \/ (Tail(requests) = << >> /\ evs # << >>)
                 THEN [idles EXCEPT !.armed = 0]
                 ELSE idles

Draining(type) == pc = "drain" /\ Head(requests).type = type

\* drop_request on every request behind Quit: the buffers they carry
DropRequests(rs) == Sum([k \in DOMAIN rs |-> RequestBufs(rs[k])])

\* PlatformRequest::Quit without the release of the write queues
DrainQuitKeepingQueues ==
    /\ Draining("Quit")
    /\ lent' = lent - DropRequests(Tail(requests))
    /\ quit_released' = [queued |-> 0, pending |-> DropRequests(Tail(requests))]
    /\ requests' = << >>
    /\ pc' = "done"
    /\ last_spawn' = NoSpawn
    /\ last_write' = NoWrite
    /\ UNCHANGED <<client_connections, client_write_queue, processes, events, timeout,
                   need_redraw, previous_timeout, epoll_events, epoll_events_len,
                   empty_write_event_count, idles, lifetimes, notServer>>

\* PlatformRequest::Quit
DrainQuit ==
    /\ Draining("Quit")
    /\ client_write_queue' = [i \in ClientHandles |-> 0]
    /\ LET queued == Sum([i \in 1 .. MAX_CLIENT_COUNT |-> client_write_queue[i - 1]])
           pending == DropRequests(Tail(requests))
       IN  /\ lent' = lent - queued - pending
           /\ quit_released' = [queued |-> queued, pending |-> pending]
    /\ requests' = << >>
    /\ pc' = "done"
    /\ last_spawn' = NoSpawn
    /\ last_write' = NoWrite
    /\ UNCHANGED <<client_connections, processes, events, timeout, need_redraw,
                   previous_timeout, epoll_events, epoll_events_len,
                   empty_write_event_count, idles, lifetimes, notServer>>

\* PlatformRequest::Redraw that sets the latch and leaves the timeout as it is
DrainRedrawKeepingTimeout ==
    /\ Draining("Redraw")
    /\ need_redraw' = TRUE
    /\ AfterRequest(timeout, events)
    /\ last_spawn' = NoSpawn
    /\ last_write' = NoWrite
    /\ UNCHANGED <<client_connections, client_write_queue, processes, epoll_events, lent,
                   quit_released, lifetimes, notServer>>

\* PlatformRequest::Redraw
DrainRedraw ==
    /\ Draining("Redraw")
    /\ need_redraw' = TRUE
    /\ AfterRequest("Zero", events)
    /\ last_spawn' = NoSpawn
    /\ last_write' = NoWrite
    /\ UNCHANGED <<client_connections, client_write_queue, processes, epoll_events, lent,
                   quit_released, lifetimes, notServer>>

\* PlatformRequest::WriteToClient
DrainWriteToClient ==
    /\ Draining("WriteToClient")
    /\ LET index == Head(requests).handle
       IN  IF client_connections[index]
           THEN \E w \in WriteToConnection(client_write_queue[index] + 1) :
                /\ client_write_queue' = [client_write_queue EXCEPT ![index] = w.left]
                /\ lent' = lent - w.released
                /\ client_connections' = [client_connections EXCEPT ![index] = w.ok]
                /\ AfterRequest(timeout, IF w.ok THEN events
                                         ELSE Append(events, ConnectionClose(index)))
                /\ last_write' = [happened |-> TRUE, type |-> "WriteToClient",
                                  present |-> TRUE, ok |-> w.ok]
           ELSE /\ lent' = lent - 1
                /\ AfterRequest(timeout, events)
                /\ last_write' = [happened |-> TRUE, type |-> "WriteToClient",
                                  present |-> FALSE, ok |-> FALSE]
                /\ UNCHANGED <<client_connections, client_write_queue>>
    /\ last_spawn' = NoSpawn
    /\ UNCHANGED <<processes, need_redraw, epoll_events, quit_released, lifetimes, notServer>>

\* PlatformRequest::CloseClient
DrainCloseClient ==
    /\ Draining("CloseClient")
    /\ LET index == Head(requests).handle
       IN  /\ client_connections' = [client_connections EXCEPT ![index] = FALSE]
           /\ AfterRequest(timeout, Append(events, ConnectionClose(index)))
    /\ last_spawn' = NoSpawn
    /\ last_write' = NoWrite
    /\ UNCHANGED <<client_write_queue, processes, need_redraw, epoll_events, lent,
                   quit_released, lifetimes, notServer>>

\* SpawnProcess that pushes no ProcessExit when nothing was spawned
DrainSpawnProcessSilentFailure ==
    /\ Draining("SpawnProcess")
    /\ LET tag == Head(requests).tag
           vacant == {k \in ProcessHandles : ~ processes[k].some}
           i == FirstFree(vacant)
       IN  \E spawn_ok \in BOOLEAN :
           LET spawned == i >= 0 /\ spawn_ok
               pushed == IF spawned THEN << ProcessSpawned(tag, i) >> ELSE << >>
           IN  /\ i >= 0 \/ ~ spawn_ok
               /\ IF spawned
                  THEN /\ processes' = [processes EXCEPT ![i] = NewProcess(tag)]
                       /\ lifetimes' = [lifetimes EXCEPT
                              ![i] = [spawned |-> TRUE, tag |-> tag, exits |-> << >>]]
                  ELSE UNCHANGED <<processes, lifetimes>>
               /\ last_write' = NoWrite
               /\ last_spawn' = [happened |-> TRUE, tag |-> tag, vacant |-> vacant,
                                 spawn_ok |-> spawn_ok, pushed |-> pushed]
               /\ AfterRequest(timeout, events \o pushed)
    /\ UNCHANGED <<client_connections, client_write_queue, need_redraw, epoll_events, lent,
                   quit_released, notServer>>

\* PlatformRequest::SpawnProcess
DrainSpawnProcess ==
    /\ Draining("SpawnProcess")
    /\ LET tag == Head(requests).tag
           vacant == {k \in ProcessHandles : ~ processes[k].some}
           i == FirstFree(vacant)
       IN  \E spawn_ok \in BOOLEAN :
           LET spawned == i >= 0 /\ spawn_ok
               pushed == IF spawned THEN << ProcessSpawned(tag, i) >>
                         ELSE << ProcessExit(tag) >>
           IN  /\ i >= 0 \/ ~ spawn_ok
               /\ IF spawned
                  THEN /\ processes' = [processes EXCEPT ![i] = NewProcess(tag)]
                       /\ lifetimes' = [lifetimes EXCEPT
                              ![i] = [spawned |-> TRUE, tag |-> tag, exits |-> << >>]]
                  ELSE UNCHANGED <<processes, lifetimes>>
               /\ last_write' = NoWrite
               /\ last_spawn' = [happened |-> TRUE, tag |-> tag, vacant |-> vacant,
                                 spawn_ok |-> spawn_ok, pushed |-> pushed]
               /\ AfterRequest(timeout, events \o pushed)
    /\ UNCHANGED <<client_connections, client_write_queue, need_redraw, epoll_events, lent,
                   quit_released, notServer>>

\* process.kill(); processes[index] = None; events.push(ProcessExit { tag })
KillAndVacate(index) ==
    /\ processes' = [processes EXCEPT ![index] = NONE_PROCESS]
    /\ lifetimes' = Exited(index, processes[index].tag)
    /\ AfterRequest(timeout, Append(events, ProcessExit(processes[index].tag)))

\* WriteToProcess that releases the buffer only after a write was attempted
DrainWriteToProcessKeepingBuf ==
    /\ Draining("WriteToProcess")
    /\ LET index == Head(requests).handle
       IN  IF processes[index].some
           THEN \E written \in BOOLEAN :
                /\ IF written
                   THEN /\ AfterRequest(timeout, events)
                        /\ UNCHANGED <<processes, lifetimes>>
                   ELSE KillAndVacate(index)
                /\ last_write' = [happened |-> TRUE, type |-> "WriteToProcess",
                                  present |-> TRUE, ok |-> written]
                /\ lent' = lent - 1
           ELSE /\ AfterRequest(timeout, events)
                /\ last_write' = [happened |-> TRUE, type |-> "WriteToProcess",
                                  present |-> FALSE, ok |-> FALSE]
                /\ UNCHANGED <<processes, lifetimes, lent>>
    /\ last_spawn' = NoSpawn
    /\ UNCHANGED <<client_connections, client_write_queue, need_redraw, epoll_events, quit_released, notServer>>

\* PlatformRequest::WriteToProcess
DrainWriteToProcess ==
    /\ Draining("WriteToProcess")
    /\ LET index == Head(requests).handle
       IN  IF processes[index].some
           THEN \E written \in BOOLEAN :
                /\ IF written
                   THEN /\ AfterRequest(timeout, events)
                        /\ UNCHANGED <<processes, lifetimes>>
                   ELSE KillAndVacate(index)
                /\ last_write' = [happened |-> TRUE, type |-> "WriteToProcess",
                                  present |-> TRUE, ok |-> written]
           ELSE /\ AfterRequest(timeout, events)
                /\ last_write' = [happened |-> TRUE, type |-> "WriteToProcess",
                                  present |-> FALSE, ok |-> FALSE]
                /\ UNCHANGED <<processes, lifetimes>>
    /\ lent' = lent - 1
    /\ last_spawn' = NoSpawn
    /\ UNCHANGED <<client_connections, client_write_queue, need_redraw, epoll_events, quit_released, notServer>>

\* PlatformRequest::CloseProcessInput: process.close_input() drops the child's
\* stdin; a later process.write may then fail (see DrainWriteToProcess)
DrainCloseProcessInput ==
    /\ Draining("CloseProcessInput")
    /\ AfterRequest(timeout, events)
    /\ last_spawn' = NoSpawn
    /\ last_write' = NoWrite
    /\ UNCHANGED <<client_connections, client_write_queue, processes, need_redraw,
                   epoll_events, lent, quit_released, lifetimes, notServer>>

\* KillProcess that emits ProcessExit and leaves the process in its slot
DrainKillProcessKeepingSlot ==
    /\ Draining("KillProcess")
    /\ LET index == Head(requests).handle
       IN  IF processes[index].some
           THEN /\ lifetimes' = Exited(index, processes[index].tag)
                /\ AfterRequest(timeout, Append(events, ProcessExit(processes[index].tag)))
                /\ UNCHANGED processes
           ELSE /\ AfterRequest(timeout, events)
                /\ UNCHANGED <<processes, lifetimes>>
    /\ last_spawn' = NoSpawn
    /\ last_write' = NoWrite
    /\ UNCHANGED <<client_connections, client_write_queue, need_redraw, epoll_events, lent,
                   quit_released, notServer>>

\* PlatformRequest::KillProcess
DrainKillProcess ==
    /\ Draining("KillProcess")
    /\ LET index == Head(requests).handle
       IN  IF processes[index].some
           THEN KillAndVacate(index)
           ELSE /\ AfterRequest(timeout, events)
                /\ UNCHANGED <<processes, lifetimes>>
    /\ last_spawn' = NoSpawn
    /\ last_write' = NoWrite
    /\ UNCHANGED <<client_connections, client_write_queue, need_redraw, epoll_events, lent,
                   quit_released, notServer>>

Next ==
    \/ \E T \in SUBSET {e \in Triggers : Registered(e)} : Wait(T)
    \/ \E e \in epoll_events : Accept(e)
    \/ \E e \in epoll_events : ClientReady(e)
    \/ \E e \in epoll_events : ProcessReady(e)
    \/ Update
    \/ \E request \in RequestInputs : Enqueue(request)
    \/ Drain
    \/ DrainQuit
    \/ DrainRedraw
    \/ DrainWriteToClient
    \/ DrainCloseClient
    \/ DrainSpawnProcess
    \/ DrainWriteToProcess
    \/ DrainCloseProcessInput
    \/ DrainKillProcess

(***************************************************************************)
(* BufferContent (buffer.rs): lines of bytes                               *)
(***************************************************************************)

\* b'\n'
LF == 10

\* b'\r'
CR == 13

\* the longest text handed to insert_text
MaxTextLen == 2

\* the largest line index and column of the positions handed to the operations
MaxIndex == 2

\* operations are applied to contents of at most this many lines and bytes
MaxContent == 4

\* the texts handed to insert_text, of the bytes 'a', 'b', '\n', '\r' (one-byte
\* characters: every byte index is a char boundary)
TextInputs == UNION {[1 .. n -> {97, 98, LF, CR}] : n \in 0 .. MaxTextLen}

PositionInputs == (0 .. MaxIndex) \X (0 .. MaxIndex)

\* BufferRange::between(from, to)
Between(from, to) == [from |-> PosMin(from, to), to |-> PosMax(from, to)]

RangeInputs == {Between(a, b) : a, b \in PositionInputs}

\* BufferContent::new(): one empty line
NewContent == << << >> >>

\* str::lines(): split after each '\n'; a line loses its '\n' and then a '\r'
\* that stood before it
RECURSIVE StrLines(_)
StrLines(text) ==
    LET newlines == {k \in 1 .. Len(text) : text[k] = LF}
    IN  IF text = << >> THEN << >>
        ELSE IF newlines = {} THEN << text >>
        ELSE LET k == CHOOSE i \in newlines : \A j \in newlines : i <= j
                 line == SubSeq(text, 1, k - 1)
                 stripped == IF line # << >> /\ line[Len(line)] = CR
                             THEN SubSeq(line, 1, Len(line) - 1)
                             ELSE line
             IN  << stripped >> \o StrLines(SubSeq(text, k + 1, Len(text)))

\* BufferContent::saturate_position
SaturatePosition(lines, position) ==
    LET line_index == IF position[1] < Len(lines) - 1 THEN position[1] ELSE Len(lines) - 1
        line == lines[line_index + 1]
    IN  << line_index, IF position[2] < Len(line) THEN position[2] ELSE Len(line) >>

\* insert_text that appends the saved tail to the last inserted line also
\* when the text ends with '\n'
ContentInsertTextJoiningTail(lines, position, text) ==
    LET line_index == position[1]
        column == position[2]
    IN  IF line_index >= Len(lines) \/ column > Len(lines[line_index + 1])
        THEN [panicked |-> TRUE]
        ELSE
        LET line == lines[line_index + 1]
            head == SubSeq(line, 1, column)
            split_line == SubSeq(line, column + 1, Len(line))
            above == SubSeq(lines, 1, line_index)
            below == SubSeq(lines, line_index + 2, Len(lines))
        IN  IF \A k \in DOMAIN text : text[k] # LF
            THEN [panicked |-> FALSE,
                  lines |-> above \o << head \o text \o split_line >> \o below,
                  range |-> Between(position, << line_index, column + Len(text) >>)]
            ELSE
            LET text_lines == StrLines(text)
                inserted == << head \o Head(text_lines) >> \o Tail(text_lines)
                line_count == Len(text_lines) - 1
                last == inserted[Len(inserted)]
            IN  [panicked |-> FALSE,
                 lines |-> above \o SubSeq(inserted, 1, Len(inserted) - 1)
                               \o << last \o split_line >> \o below,
                 range |-> Between(position, << line_index + line_count, Len(last) >>)]

\* BufferContent::insert_text: the lines and the range it returns, or a panic
\* (index out of bounds, or a byte index beyond the end of the line's String)
ContentInsertText(lines, position, text) ==
    LET line_index == position[1]
        column == position[2]
    IN  IF line_index >= Len(lines) \/ column > Len(lines[line_index + 1])
        THEN [panicked |-> TRUE]
        ELSE
        LET line == lines[line_index + 1]
            head == SubSeq(line, 1, column)
            split_line == SubSeq(line, column + 1, Len(line))
            above == SubSeq(lines, 1, line_index)
            below == SubSeq(lines, line_index + 2, Len(lines))
        IN  IF \A k \in DOMAIN text : text[k] # LF
            THEN [panicked |-> FALSE,
                  lines |-> above \o << head \o text \o split_line >> \o below,
                  range |-> Between(position, << line_index, column + Len(text) >>)]
            ELSE
            LET text_lines == StrLines(text)
                inserted == << head \o Head(text_lines) >> \o Tail(text_lines)
                line_count == Len(text_lines) - 1
                last == inserted[Len(inserted)]
            IN  IF text[Len(text)] = LF
                THEN [panicked |-> FALSE,
                      lines |-> above \o inserted \o << split_line >> \o below,
                      range |-> Between(position, << line_index + line_count + 1, 0 >>)]
                ELSE [panicked |-> FALSE,
                      lines |-> above \o SubSeq(inserted, 1, Len(inserted) - 1)
                                    \o << last \o split_line >> \o below,
                      range |-> Between(position, << line_index + line_count, Len(last) >>)]

\* BufferContent::delete_range: the lines it leaves, or a panic (index out of
\* bounds, or a drain or slice beyond the end of a line or of the lines)
ContentDeleteRange(lines, range) ==
    LET from == range.from
        to == range.to
        n == Len(lines)
    IN  IF from[1] >= n THEN [panicked |-> TRUE]
        ELSE
        LET line == lines[from[1] + 1]
            above == SubSeq(lines, 1, from[1])
        IN  IF from[1] = to[1]
            THEN IF to[2] > Len(line)
                 THEN [panicked |-> TRUE]
                 ELSE [panicked |-> FALSE,
                       lines |-> above
                                    \o << SubSeq(line, 1, from[2])
                                            \o SubSeq(line, to[2] + 1, Len(line)) >>
                                    \o SubSeq(lines, from[1] + 2, n)]
            ELSE IF from[2] > Len(line) \/ to[1] > n
                 THEN [panicked |-> TRUE]
                 ELSE
                 \* the lines strictly between from's and to's are drained
                 LET rest == SubSeq(lines, to[1] + 1, n)
                     head == SubSeq(line, 1, from[2])
                 IN  IF rest = << >>
                     THEN [panicked |-> FALSE, lines |-> above \o << head >>]
                     ELSE IF to[2] > Len(Head(rest))
                     THEN [panicked |-> TRUE]
                     ELSE [panicked |-> FALSE,
                           lines |-> above
                                        \o << head \o SubSeq(Head(rest), to[2] + 1,
                                                             Len(Head(rest))) >>
                                        \o Tail(rest)]

\* BufferContent::write: writeln!(write, "{}", line) for every line
RECURSIVE ContentWrite(_)
ContentWrite(lines) ==
    IF lines = << >> THEN << >> ELSE Head(lines) \o << LF >> \o ContentWrite(Tail(lines))

\* BufferContent::append_range_text_to_string, appended to an empty String
AppendRangeText(lines, range) ==
    LET from == SaturatePosition(lines, range.from)
        to == SaturatePosition(lines, range.to)
        first_line == lines[from[1] + 1]
        to_line == lines[to[1] + 1]
    IN  IF from[1] = to[1]
        THEN SubSeq(first_line, from[2] + 1, to[2])
        ELSE \* the rest of the first line, '\n' and a line for each line in
             \* between, '\n' and the start of the last line
             SubSeq(first_line, from[2] + 1, Len(first_line)) \o << LF >>
                 \o ContentWrite(SubSeq(lines, from[1] + 2, to[1]))
                 \o SubSeq(to_line, 1, to[2])

\* BufferContent::new()
ContentInit ==
    /\ content = NewContent
    /\ last_call = [op |-> "new", panicked |-> FALSE]

\* a BufferContent the operations are applied to: it did not panic, is within
\* the size bound and has a line (insert_text and delete_range index
\* self.lines at the position's line)
Callable ==
    /\ ~ last_call.panicked
    /\ Len(ContentWrite(content)) <= MaxContent
    /\ content # << >>

\* content.insert_text(position, text)
InsertText(position, text) ==
    /\ Callable
    /\ LET r == ContentInsertText(content, position, text)
       IN  IF r.panicked
           THEN /\ last_call' = [op |-> "insert_text", position |-> position, text |-> text,
                                 panicked |-> TRUE]
                /\ UNCHANGED content
           ELSE /\ last_call' = [op |-> "insert_text", position |-> position, text |-> text,
                                 panicked |-> FALSE, range |-> r.range]
                /\ content' = r.lines
    /\ UNCHANGED notContent

\* content.delete_range(range)
DeleteRange(range) ==
    /\ Callable
    /\ LET r == ContentDeleteRange(content, range)
       IN  /\ last_call' = [op |-> "delete_range", range |-> range, panicked |-> r.panicked]
           /\ content' = IF r.panicked THEN content ELSE r.lines
    /\ UNCHANGED notContent

\* content.clear()
Clear ==
    /\ ~ last_call.panicked
    /\ content' = NewContent
    /\ last_call' = [op |-> "clear", panicked |-> FALSE]
    /\ UNCHANGED notContent

ContentNext ==
    \/ \E position \in PositionInputs, text \in TextInputs : InsertText(position, text)
    \/ \E range \in RangeInputs : DeleteRange(range)
    \/ Clear

\* the longest input handed to read
MaxReadLen == 3

\* what the readers handed to read hold: the bytes 'a', '\n', '\r', and a
\* byte order mark in front of an 'a'
ReadInputs ==
    UNION {[1 .. n -> {97, LF, CR}] : n \in 0 .. MaxReadLen} \cup {<< 239, 187, 191, 97 >>}

\* the lines the read_line calls of read give until the reader is at its end:
\* each up to and with the next '\n', and pushed without a '\n' at its end
\* and then without a '\r' at its end
RECURSIVE ReadLines(_)
ReadLines(bytes) ==
    LET newlines == {k \in 1 .. Len(bytes) : bytes[k] = LF}
        k == IF newlines = {} THEN Len(bytes)
             ELSE CHOOSE i \in newlines : \A j \in newlines : i <= j
        no_lf == IF bytes[k] = LF THEN SubSeq(bytes, 1, k - 1) ELSE SubSeq(bytes, 1, k)
        no_cr == IF no_lf # << >> /\ no_lf[Len(no_lf)] = CR
                 THEN SubSeq(no_lf, 1, Len(no_lf) - 1)
                 ELSE no_lf
    IN  IF bytes = << >> THEN << >>
        ELSE << no_cr >> \o ReadLines(SubSeq(bytes, k + 1, Len(bytes)))

\* BufferContent::read on a reader that holds bytes and whose read_line call
\* number fail returns Err (fail = 0: none does): the lines are drained, then
\* pushed one by one; Err returns at once; at the end of the reader a content
\* without lines gets one, and the first line loses a byte order mark
ContentRead(bytes, fail) ==
    LET lines == ReadLines(bytes)
        some == IF lines = << >> THEN NewContent ELSE lines
        first == Head(some)
        bom == Len(first) >= 3 /\ SubSeq(first, 1, 3) = << 239, 187, 191 >>
    IN  IF fail > 0
        THEN [ok |-> FALSE, lines |-> SubSeq(lines, 1, fail - 1)]
        ELSE [ok |-> TRUE,
              lines |-> IF bom THEN << SubSeq(first, 4, Len(first)) >> \o Tail(some)
                        ELSE some]

\* content.read(&mut reader)
Read(bytes, fail) ==
    /\ ~ last_call.panicked
    /\ LET r == ContentRead(bytes, fail)
       IN  /\ content' = r.lines
           /\ last_call' = [op |-> "read", bytes |-> bytes, ok |-> r.ok, panicked |-> FALSE]
    /\ UNCHANGED notContent

ReadNext ==
    \/ \E bytes \in ReadInputs : \E fail \in 0 .. Len(ReadLines(bytes)) + 1 : Read(bytes, fail)
    \/ ContentNext

(***************************************************************************)
(* Buffer (buffer.rs): the content with its History                        *)
(***************************************************************************)

\* the insert_text and delete_range calls that change the content
MaxEdits == 2

\* Buffer::new, with capabilities = BufferCapabilities::text(); the History
\* holds the committed groups of edits, the open group and the undone groups
BufferInit ==
    /\ history = [past |-> << >>, open |-> << >>, future |-> << >>]
    /\ search_ranges = << >>
    /\ needs_save = FALSE
    /\ enqueued = << >>
    /\ timeline = << NewContent >>
    /\ edit_calls = 0
    /\ word_database = EmptyBag

\* History::commit_edits: closes the open group; no-op if it is empty
Committed(h) ==
    IF h.open = << >> THEN h
    ELSE [past |-> Append(h.past, h.open), open |-> << >>, future |-> h.future]

\* a delete_range that records one edit for the whole range, holding the text
\* of its first line only
DeleteEditsFirstLineOnly(lines, range) ==
    LET line == lines[range.from[1] + 1]
        end == IF range.from[1] = range.to[1] THEN range.to[2] ELSE Len(line)
    IN  << [kind |-> "Delete", range |-> range,
            text |-> SubSeq(line, range.from[2] + 1, end)] >>

\* the edits Buffer::delete_range records for a range with saturated
\* endpoints, from before to: one for a range inside a line; otherwise the
\* start of the last line, then for each line in between (last first) and for
\* the first line its newline and its text from the start of the range
DeleteEdits(lines, range) ==
    LET from == range.from
        to == range.to
        edit(a, b, text) == [kind |-> "Delete", range |-> Between(a, b), text |-> text]
        add_history_delete_line(p) ==
            LET line == lines[p[1] + 1]
                end == << p[1], Len(line) >>
            IN  << edit(end, << p[1] + 1, 0 >>, << LF >>),
                   edit(p, end, SubSeq(line, p[2] + 1, Len(line))) >>
        between_lines[k \in Nat] ==
            \* the lines to.line - 1 down to from.line + k
            IF from[1] + k >= to[1] THEN << >>
            ELSE between_lines[k + 1] \o add_history_delete_line(<< from[1] + k, 0 >>)
    IN  IF from[1] = to[1]
        THEN << edit(from, to, SubSeq(lines[from[1] + 1], from[2] + 1, to[2])) >>
        ELSE << edit(<< to[1], 0 >>, to, SubSeq(lines[to[1] + 1], 1, to[2])) >>
                 \o between_lines[1]
                 \o add_history_delete_line(from)

\* the loop of Buffer::apply_history_edits: the content it leaves and the
\* events it enqueues, or a panic of the content operation
RECURSIVE ApplyHistoryEdits(_, _)
ApplyHistoryEdits(lines, edits) ==
    IF edits = << >> THEN [panicked |-> FALSE, lines |-> lines, events |-> << >>]
    ELSE LET edit == Head(edits)
             r == IF edit.kind = "Insert"
                  THEN ContentInsertText(lines, edit.range.from, edit.text)
                  ELSE ContentDeleteRange(lines, edit.range)
             event == IF edit.kind = "Insert"
                      THEN [type |-> "BufferInsertText", range |-> edit.range,
                            text |-> edit.text]
                      ELSE [type |-> "BufferDeleteText", range |-> edit.range]
         IN  IF r.panicked THEN [panicked |-> TRUE]
             ELSE LET rest == ApplyHistoryEdits(r.lines, Tail(edits))
                  IN  IF rest.panicked THEN rest
                      ELSE [rest EXCEPT !.events = << event >> \o @]

\* the bytes of the characters of an identifier: ASCII letters, digits and '_'
IsIdentifierByte(b) == b \in (48 .. 57) \cup (65 .. 90) \cup (97 .. 122) \cup {95}

\* WordIter(line).of_kind(WordKind::Identifier): the longest runs of identifier
\* characters of the line, as the bag of them
LineWords(line) ==
    LET scan[k \in 0 .. Len(line)] ==
            IF k = 0 THEN [words |-> EmptyBag, word |-> << >>]
            ELSE LET before == scan[k - 1]
                 IN  IF IsIdentifierByte(line[k])
                     THEN [before EXCEPT !.word = Append(@, line[k])]
                     ELSE IF before.word = << >> THEN before
                     ELSE [words |-> before.words (+) SetToBag({before.word}),
                           word |-> << >>]
        end == scan[Len(line)]
    IN  IF end.word = << >> THEN end.words ELSE end.words (+) SetToBag({end.word})

\* the identifier words of lines.skip(first).take(count)
LinesWords(lines, first, count) ==
    LET sum[k \in 0 .. Len(lines)] ==
            IF k = 0 THEN EmptyBag
            ELSE IF k > first /\ k <= first + count THEN sum[k - 1] (+) LineWords(lines[k])
            ELSE sum[k - 1]
    IN  sum[Len(lines)]

\* insert_text_no_history as it would be if it added the words of the first line
\* of the range only
InsertWordsFirstLine(words, lines, position, r) ==
    (words (-) LineWords(lines[position[1] + 1]))
        (+) LinesWords(r.lines, r.range.from[1], 1)

\* Buffer::insert_text_no_history on the word database: WordDatabase::remove for
\* the words of the line at position, WordDatabase::add for the words of the
\* lines of the range inserted; r is what content.insert_text returned and left
InsertWords(words, lines, position, r) ==
    (words (-) LineWords(lines[position[1] + 1]))
        (+) LinesWords(r.lines, r.range.from[1], r.range.to[1] - r.range.from[1] + 1)

\* Buffer::delete_range_no_history on the word database: remove for the words of
\* the lines of the range, add for the words of the line the range started on
DeleteWords(words, lines, range, deleted) ==
    (words (-) LinesWords(lines, range.from[1], range.to[1] - range.from[1] + 1))
        (+) LineWords(deleted[range.from[1] + 1])

\* the loop of Buffer::apply_history_edits on the word database, for edits that
\* the content takes without a panic
RECURSIVE ApplyHistoryWords(_, _, _)
ApplyHistoryWords(words, lines, edits) ==
    IF edits = << >> THEN words
    ELSE LET edit == Head(edits)
             r == IF edit.kind = "Insert"
                  THEN ContentInsertText(lines, edit.range.from, edit.text)
                  ELSE ContentDeleteRange(lines, edit.range)
         IN  ApplyHistoryWords(
                 IF edit.kind = "Insert" THEN InsertWords(words, lines, edit.range.from, r)
                 ELSE DeleteWords(words, lines, edit.range, r.lines),
                 r.lines, Tail(edits))

\* Buffer::insert_text
BufferInsertText(position, text) ==
    /\ Callable
    /\ edit_calls < MaxEdits
    /\ LET saturated == SaturatePosition(content, position)
           r == ContentInsertText(content, saturated, text)
       IN  IF text = << >>
           THEN /\ last_call' = [op |-> "Buffer::insert_text", text |-> text,
                                 panicked |-> FALSE,
                                 range |-> Between(saturated, saturated)]
                /\ enqueued' = << >>
                /\ UNCHANGED <<content, history, needs_save, edit_calls, word_database>>
           ELSE /\ last_call' = [op |-> "Buffer::insert_text", text |-> text,
                                 panicked |-> FALSE, range |-> r.range]
                /\ needs_save' = TRUE
                /\ content' = r.lines
                /\ word_database' = InsertWords(word_database, content, saturated, r)
                /\ enqueued' = << [type |-> "BufferInsertText", range |-> r.range,
                                   text |-> text] >>
                /\ history' = [history EXCEPT
                       !.open = Append(@, [kind |-> "Insert", range |-> r.range,
                                           text |-> text]),
                       !.future = << >>]
                /\ edit_calls' = edit_calls + 1
    /\ search_ranges' = << >>
    /\ UNCHANGED <<timeline, cursorVars, receiverVars, serverVars,
                   eventVars,
                   restVars>>

\* Buffer::delete_range
BufferDeleteRange(range) ==
    /\ Callable
    /\ edit_calls < MaxEdits
    /\ LET saturated == [from |-> SaturatePosition(content, range.from),
                         to |-> SaturatePosition(content, range.to)]
           \* saturation can leave from behind to on the last line: the slice
           \* of the line for the history edit then panics
           inverted == PosLT(saturated.to, saturated.from)
       IN  /\ last_call' = [op |-> "Buffer::delete_range", panicked |-> inverted,
                            range |-> saturated]
           /\ IF saturated.from = saturated.to
              THEN /\ enqueued' = << >>
                   /\ UNCHANGED <<content, history, needs_save, edit_calls, word_database>>
              ELSE IF inverted
              THEN /\ needs_save' = TRUE
                   /\ enqueued' = << [type |-> "BufferDeleteText", range |-> saturated] >>
                   /\ UNCHANGED <<content, history, edit_calls, word_database>>
              ELSE /\ needs_save' = TRUE
                   /\ enqueued' = << [type |-> "BufferDeleteText", range |-> saturated] >>
                   /\ history' = [history EXCEPT
                          !.open = @ \o DeleteEdits(content, saturated),
                          !.future = << >>]
                   /\ content' = ContentDeleteRange(content, saturated).lines
                   /\ word_database' =
                          DeleteWords(word_database, content, saturated,
                                      ContentDeleteRange(content, saturated).lines)
                   /\ edit_calls' = edit_calls + 1
    /\ search_ranges' = << >>
    /\ UNCHANGED <<timeline, cursorVars, receiverVars, serverVars,
                   eventVars,
                   restVars>>

\* Buffer::commit_edits
CommitEdits ==
    /\ ~ last_call.panicked
    /\ history' = Committed(history)
    /\ timeline' = IF history.open = << >> THEN timeline
                   ELSE Append(SubSeq(timeline, 1, Len(history.past) + 1), content)
    /\ last_call' = [op |-> "commit_edits", panicked |-> FALSE]
    /\ enqueued' = << >>
    /\ UNCHANGED <<content, search_ranges, needs_save, edit_calls, word_database,
                   cursorVars, receiverVars, serverVars, eventVars,
                   restVars>>

\* Buffer::undo: History::undo_edits hands over the last group (the open one
\* if there is one), last edit first; apply_history_edits applies every edit
\* by the kind it is handed, and tests::buffer_delete_undo_redo_* expect the
\* content back: the edits come with their kinds inverted
Undo ==
    /\ ~ last_call.panicked
    /\ LET h == Committed(history)
           group == h.past[Len(h.past)]
           edits == [k \in 1 .. Len(group) |->
                        [group[Len(group) + 1 - k] EXCEPT
                            !.kind = IF @ = "Insert" THEN "Delete" ELSE "Insert"]]
           r == ApplyHistoryEdits(content, edits)
       IN  /\ timeline' = IF history.open = << >> THEN timeline
                          ELSE Append(SubSeq(timeline, 1, Len(history.past) + 1), content)
           /\ IF h.past = << >>
              THEN /\ history' = h
                   /\ last_call' = [op |-> "undo", panicked |-> FALSE, edits |-> 0]
                   /\ enqueued' = << >>
                   /\ UNCHANGED <<content, word_database>>
              ELSE /\ history' = [past |-> SubSeq(h.past, 1, Len(h.past) - 1),
                                  open |-> << >>,
                                  future |-> << group >> \o h.future]
                   /\ last_call' = [op |-> "undo", panicked |-> r.panicked,
                                    edits |-> Len(edits)]
                   /\ enqueued' = IF r.panicked THEN << >> ELSE r.events
                   /\ content' = IF r.panicked THEN content ELSE r.lines
                   /\ word_database' = IF r.panicked THEN word_database
                                        ELSE ApplyHistoryWords(word_database, content, edits)
    /\ search_ranges' = << >>
    /\ needs_save' = TRUE
    /\ UNCHANGED <<edit_calls, cursorVars, receiverVars, serverVars,
                   eventVars,
                   restVars>>

\* Buffer::redo: History::redo_edits hands over the group undone last, first
\* edit first
Redo ==
    /\ ~ last_call.panicked
    /\ LET group == Head(history.future)
           r == ApplyHistoryEdits(content, group)
       IN  IF history.future = << >>
           THEN /\ last_call' = [op |-> "redo", panicked |-> FALSE, edits |-> 0]
                /\ enqueued' = << >>
                /\ UNCHANGED <<content, history, word_database>>
           ELSE /\ history' = [past |-> Append(history.past, group),
                               open |-> << >>,
                               future |-> Tail(history.future)]
                /\ last_call' = [op |-> "redo", panicked |-> r.panicked,
                                 edits |-> Len(group)]
                /\ enqueued' = IF r.panicked THEN << >> ELSE r.events
                /\ content' = IF r.panicked THEN content ELSE r.lines
                /\ word_database' = IF r.panicked THEN word_database
                                     ELSE ApplyHistoryWords(word_database, content, group)
    /\ search_ranges' = << >>
    /\ needs_save' = TRUE
    /\ UNCHANGED <<timeline, edit_calls, cursorVars, receiverVars, serverVars,
                   eventVars,
                   restVars>>

\* Buffer::set_search with a pattern that matches the byte 'a': the ranges
\* find_search_ranges pushes, line by line
SetSearch ==
    /\ ~ last_call.panicked
    /\ LET matches(i) ==
               LET line == content[i]
                   at == {k \in 1 .. Len(line) : line[k] = 97}
                   ranges[k \in 0 .. Len(line)] ==
                       IF k = 0 THEN << >>
                       ELSE IF k \in at
                       THEN Append(ranges[k - 1], Between(<< i - 1, k - 1 >>, << i - 1, k >>))
                       ELSE ranges[k - 1]
               IN  ranges[Len(line)]
           found[i \in 0 .. Len(content)] ==
               IF i = 0 THEN << >> ELSE found[i - 1] \o matches(i)
       IN  search_ranges' = found[Len(content)]
    /\ last_call' = [op |-> "set_search", panicked |-> FALSE]
    /\ enqueued' = << >>
    /\ UNCHANGED <<content, history, needs_save, timeline, edit_calls, word_database,
                   cursorVars, receiverVars, serverVars, eventVars,
                   restVars>>

BufferNext ==
    \/ \E position \in PositionInputs, text \in TextInputs : BufferInsertText(position, text)
    \/ \E range \in RangeInputs : BufferDeleteRange(range)
    \/ CommitEdits
    \/ Undo
    \/ Redo
    \/ SetSearch

(***************************************************************************)
(* Key: its text form (impl Display for Key) and parse_key                 *)
(*                                                                         *)
(* A text is a sequence of characters, each a one-character string; a key  *)
(* is a record of its variant and, for F, Char, Ctrl and Alt, its payload. *)
(***************************************************************************)

\* the largest F number tried: one past the two digits parse_key reads
MaxF == 100

\* the keys tried: every variant the match of Display lists, F with each number
\* up to MaxF, and Char, Ctrl and Alt with letters, digits, the three characters
\* Display names, and other punctuation
KeyInputs ==
    LET chars == {"a", "z", "Z", "0", "9", "_", "-", "\\", " ", "<", ">"}
    IN  {[kind |-> name] : name \in {"None", "Backspace", "Enter", "Left", "Right", "Up",
                                     "Down", "Home", "End", "PageUp", "PageDown", "Tab",
                                     "Delete", "Esc"}}
        \cup {[kind |-> "F", n |-> n] : n \in 0 .. MaxF}
        \cup {[kind |-> kind, c |-> c] : kind \in {"Char", "Ctrl", "Alt"}, c \in chars}

\* char::is_ascii_alphanumeric
IsAsciiAlphanumeric(c) ==
    c \in {"0", "1", "2", "3", "4", "5", "6", "7", "8", "9", "a", "b", "c",
          "d", "e", "f", "g", "h", "i", "j", "k", "l", "m", "n", "o", "p",
          "q", "r", "s", "t", "u", "v", "w", "x", "y", "z", "A", "B", "C",
          "D", "E", "F", "G", "H", "I", "J", "K", "L", "M", "N", "O", "P",
          "Q", "R", "S", "T", "U", "V", "W", "X", "Y", "Z"}

\* a Display that writes every Char as the character itself
FormatKeyBareChars(key) ==
    LET digits == << "0", "1", "2", "3", "4", "5", "6", "7", "8", "9" >>
        digit(d) == digits[d + 1]
        number(n) == IF n < 10 THEN << digit(n) >>
                     ELSE IF n < 100 THEN << digit(n \div 10), digit(n % 10) >>
                     ELSE << digit(n \div 100), digit((n \div 10) % 10), digit(n % 10) >>
    IN  CASE key.kind = "None" -> << >>
          [] key.kind = "Backspace" -> << "<", "b", "a", "c", "k", "s", "p", "a", "c", "e", ">" >>
          [] key.kind = "Enter" -> << "<", "e", "n", "t", "e", "r", ">" >>
          [] key.kind = "Left" -> << "<", "l", "e", "f", "t", ">" >>
          [] key.kind = "Right" -> << "<", "r", "i", "g", "h", "t", ">" >>
          [] key.kind = "Up" -> << "<", "u", "p", ">" >>
          [] key.kind = "Down" -> << "<", "d", "o", "w", "n", ">" >>
          [] key.kind = "Home" -> << "<", "h", "o", "m", "e", ">" >>
          [] key.kind = "End" -> << "<", "e", "n", "d", ">" >>
          [] key.kind = "PageUp" -> << "<", "p", "a", "g", "e", "u", "p", ">" >>
          [] key.kind = "PageDown" -> << "<", "p", "a", "g", "e", "d", "o", "w", "n", ">" >>
          [] key.kind = "Tab" -> << "<", "t", "a", "b", ">" >>
          [] key.kind = "Delete" -> << "<", "d", "e", "l", "e", "t", "e", ">" >>
          [] key.kind = "F" -> << "<", "f" >> \o number(key.n) \o << ">" >>
          [] key.kind = "Char" -> << key.c >>
          [] key.kind = "Ctrl" -> << "<", "c", "-", key.c, ">" >>
          [] key.kind = "Alt" -> << "<", "a", "-", key.c, ">" >>
          [] key.kind = "Esc" -> << "<", "e", "s", "c", ">" >>

\* impl Display for Key
FormatKey(key) ==
    LET digits == << "0", "1", "2", "3", "4", "5", "6", "7", "8", "9" >>
        digit(d) == digits[d + 1]
        number(n) == IF n < 10 THEN << digit(n) >>
                     ELSE IF n < 100 THEN << digit(n \div 10), digit(n % 10) >>
                     ELSE << digit(n \div 100), digit((n \div 10) % 10), digit(n % 10) >>
    IN  CASE key.kind = "None" -> << >>
          [] key.kind = "Backspace" -> << "<", "b", "a", "c", "k", "s", "p", "a", "c", "e", ">" >>
          [] key.kind = "Enter" -> << "<", "e", "n", "t", "e", "r", ">" >>
          [] key.kind = "Left" -> << "<", "l", "e", "f", "t", ">" >>
          [] key.kind = "Right" -> << "<", "r", "i", "g", "h", "t", ">" >>
          [] key.kind = "Up" -> << "<", "u", "p", ">" >>
          [] key.kind = "Down" -> << "<", "d", "o", "w", "n", ">" >>
          [] key.kind = "Home" -> << "<", "h", "o", "m", "e", ">" >>
          [] key.kind = "End" -> << "<", "e", "n", "d", ">" >>
          [] key.kind = "PageUp" -> << "<", "p", "a", "g", "e", "u", "p", ">" >>
          [] key.kind = "PageDown" -> << "<", "p", "a", "g", "e", "d", "o", "w", "n", ">" >>
          [] key.kind = "Tab" -> << "<", "t", "a", "b", ">" >>
          [] key.kind = "Delete" -> << "<", "d", "e", "l", "e", "t", "e", ">" >>
          [] key.kind = "F" -> << "<", "f" >> \o number(key.n) \o << ">" >>
          [] key.kind = "Char" ->
                 IF key.c = " " THEN << "<", "s", "p", "a", "c", "e", ">" >>
                 ELSE IF key.c = "<" THEN << "<", "l", "e", "s", "s", ">" >>
                 ELSE IF key.c = ">" THEN << "<", "g", "r", "e", "a", "t", "e", "r", ">" >>
                 ELSE << key.c >>
          [] key.kind = "Ctrl" -> << "<", "c", "-", key.c, ">" >>
          [] key.kind = "Alt" -> << "<", "a", "-", key.c, ">" >>
          [] key.kind = "Esc" -> << "<", "e", "s", "c", ">" >>

\* parse_key: the key at the head of chars and the characters left, or the
\* error
ParseKey(chars) ==
    LET UnexpectedEnd == [ok |-> FALSE, error |-> "UnexpectedEnd"]
        InvalidCharacter(c) == [ok |-> FALSE, error |-> "InvalidCharacter", c |-> c]
        Parsed(key, i) == [ok |-> TRUE, key |-> key, rest |-> SubSeq(chars, i, Len(chars))]
        has(i) == i <= Len(chars)
        \* consume_str from the i-th character on, then Parsed(key)
        consume_str(i, s, key) ==
            LET bad == {j \in 1 .. Len(s) : ~ has(i + j - 1) \/ chars[i + j - 1] # s[j]}
                j == CHOOSE first \in bad : \A other \in bad : first <= other
            IN  IF bad = {} THEN Parsed(key, i + Len(s))
                ELSE IF ~ has(i + j - 1) THEN UnexpectedEnd
                ELSE InvalidCharacter(chars[i + j - 1])
        digits == << "0", "1", "2", "3", "4", "5", "6", "7", "8", "9" >>
        is_digit(c) == \E d \in 0 .. 9 : digits[d + 1] = c
        to_digit(c) == CHOOSE d \in 0 .. 9 : digits[d + 1] = c
        modified(kind) ==
            IF ~ has(3) THEN UnexpectedEnd
            ELSE IF chars[3] # "-" THEN InvalidCharacter(chars[3])
            ELSE IF ~ has(4) THEN UnexpectedEnd
            ELSE IF ~ IsAsciiAlphanumeric(chars[4]) THEN InvalidCharacter(chars[4])
            ELSE consume_str(5, << ">" >>, [kind |-> kind, c |-> chars[4]])
        function_key ==
            IF ~ has(3) THEN UnexpectedEnd
            ELSE IF ~ is_digit(chars[3]) THEN InvalidCharacter(chars[3])
            ELSE IF ~ has(4) THEN UnexpectedEnd
            ELSE IF is_digit(chars[4])
            THEN consume_str(5, << ">" >>,
                             [kind |-> "F", n |-> to_digit(chars[3]) * 10 + to_digit(chars[4])])
            ELSE IF chars[4] = ">" THEN Parsed([kind |-> "F", n |-> to_digit(chars[3])], 5)
            ELSE InvalidCharacter(chars[4])
    IN  IF ~ has(1) THEN UnexpectedEnd
        ELSE IF chars[1] = ">" THEN InvalidCharacter(">")
        ELSE IF chars[1] # "<" THEN Parsed([kind |-> "Char", c |-> chars[1]], 2)
        ELSE IF ~ has(2) THEN UnexpectedEnd
        ELSE CASE chars[2] = "b" -> consume_str(3, << "a", "c", "k", "s", "p", "a", "c", "e", ">" >>,
                                                [kind |-> "Backspace"])
               [] chars[2] = "s" -> consume_str(3, << "p", "a", "c", "e", ">" >>,
                                                [kind |-> "Char", c |-> " "])
               [] chars[2] = "e" ->
                      IF ~ has(3) THEN UnexpectedEnd
                      ELSE CASE chars[3] = "n" ->
                                    IF ~ has(4) THEN UnexpectedEnd
                                    ELSE CASE chars[4] = "t" ->
                                                  consume_str(5, << "e", "r", ">" >>,
                                                              [kind |-> "Enter"])
                                           [] chars[4] = "d" ->
                                                  consume_str(5, << ">" >>,
                                                              [kind |-> "End"])
                                           [] OTHER -> InvalidCharacter(chars[4])
                             [] chars[3] = "s" -> consume_str(4, << "c", ">" >>,
                                                              [kind |-> "Esc"])
                             [] OTHER -> InvalidCharacter(chars[3])
               [] chars[2] = "l" ->
                      IF ~ has(3) THEN UnexpectedEnd
                      ELSE IF chars[3] # "e" THEN InvalidCharacter(chars[3])
                      ELSE IF ~ has(4) THEN UnexpectedEnd
                      ELSE CASE chars[4] = "s" ->
                                    consume_str(5, << "s", ">" >>,
                                                [kind |-> "Char", c |-> "<"])
                             [] chars[4] = "f" -> consume_str(5, << "t", ">" >>,
                                                              [kind |-> "Left"])
                             [] OTHER -> InvalidCharacter(chars[4])
               [] chars[2] = "g" -> consume_str(3, << "r", "e", "a", "t", "e", "r", ">" >>,
                                                [kind |-> "Char", c |-> ">"])
               [] chars[2] = "r" -> consume_str(3, << "i", "g", "h", "t", ">" >>,
                                                [kind |-> "Right"])
               [] chars[2] = "u" -> consume_str(3, << "p", ">" >>, [kind |-> "Up"])
               [] chars[2] = "d" ->
                      IF ~ has(3) THEN UnexpectedEnd
                      ELSE CASE chars[3] = "o" -> consume_str(4, << "w", "n", ">" >>,
                                                              [kind |-> "Down"])
                             [] chars[3] = "e" -> consume_str(4, << "l", "e", "t", "e", ">" >>,
                                                              [kind |-> "Delete"])
                             [] OTHER -> InvalidCharacter(chars[3])
               [] chars[2] = "h" -> consume_str(3, << "o", "m", "e", ">" >>,
                                                [kind |-> "Home"])
               [] chars[2] = "p" ->
                      LET paged == consume_str(3, << "a", "g", "e" >>, [kind |-> "page"])
                      IN  IF ~ paged.ok THEN paged
                          ELSE IF ~ has(6) THEN UnexpectedEnd
                          ELSE CASE chars[6] = "u" ->
                                        consume_str(7, << "p", ">" >>, [kind |-> "PageUp"])
                                 [] chars[6] = "d" ->
                                        consume_str(7, << "o", "w", "n", ">" >>,
                                                    [kind |-> "PageDown"])
                                 [] OTHER -> InvalidCharacter(chars[6])
               [] chars[2] = "t" -> consume_str(3, << "a", "b", ">" >>, [kind |-> "Tab"])
               [] chars[2] = "f" -> function_key
               [] chars[2] = "c" -> modified("Ctrl")
               [] chars[2] = "a" -> modified("Alt")
               [] OTHER -> InvalidCharacter(chars[2])

\* no key is being formatted or parsed
KeyIdle == key_trip = [step |-> "idle"]

\* format!("{}", key)
Format ==
    /\ key_trip.step = "key"
    /\ key_trip' = [step |-> "text", key |-> key_trip.key, text |-> FormatKey(key_trip.key)]
    /\ UNCHANGED <<queue, queue_log, notEvents>>

\* parse_key(&mut text.chars())
Parse ==
    /\ key_trip.step = "text"
    /\ key_trip' = [step |-> "parsed", key |-> key_trip.key, text |-> key_trip.text,
                    parsed |-> ParseKey(key_trip.text)]
    /\ UNCHANGED <<queue, queue_log, notEvents>>

KeyNext ==
    \/ Format
    \/ Parse

(***************************************************************************)
(* EditorEventQueue                                                        *)
(*                                                                         *)
(* Each of the two EventQueue arenas holds its events, the bytes of the    *)
(* texts of its BufferInsertText events and the cursors of its FixCursors  *)
(* events; such an event holds the from and to indices of its slice.       *)
(***************************************************************************)

\* events an arena holds before no more are enqueued
MaxEvents == 2

\* cursors both arenas hold together before no more are enqueued
MaxCursors == 3

\* EventQueue::default
NewEventQueue == [events |-> << >>, texts |-> << >>, cursors |-> << >>]

\* EditorEventQueue::default
QueueInit ==
    /\ queue = [read |-> NewEventQueue, write |-> NewEventQueue]
    /\ queue_log = [op |-> "new", pending |-> << >>, flipped |-> << >>]

\* EditorEventQueue::enqueue
EnqueueEvent(event) ==
    /\ Len(queue.write.events) < MaxEvents
    /\ queue' = [queue EXCEPT !.write.events = Append(@, event)]
    /\ queue_log' = [queue_log EXCEPT !.op = "enqueue", !.pending = Append(@, event)]
    /\ UNCHANGED <<key_trip, notEvents>>

\* EditorEventQueue::enqueue_buffer_insert
EnqueueBufferInsert(text) ==
    /\ Len(queue.write.events) < MaxEvents
    /\ LET from == Len(queue.write.texts)
           texts == queue.write.texts \o text
       IN  queue' = [queue EXCEPT
               !.write.texts = texts,
               !.write.events = Append(@, [type |-> "BufferInsertText", from |-> from,
                                           to |-> Len(texts)])]
    /\ queue_log' = [queue_log EXCEPT
           !.op = "enqueue",
           !.pending = Append(@, [type |-> "BufferInsertText", text |-> text])]
    /\ UNCHANGED <<key_trip, notEvents>>

\* enqueue_fix_cursors that takes the slice to start at the front of the arena
EnqueueFixCursorsFromZero(some_cursors) ==
    /\ Len(queue.write.events) < MaxEvents
    /\ Len(queue.read.cursors) + Len(queue.write.cursors) + Len(some_cursors) <= MaxCursors
    /\ LET from == 0
           all == queue.write.cursors \o some_cursors
       IN  queue' = [queue EXCEPT
               !.write.cursors = all,
               !.write.events = Append(@, [type |-> "FixCursors", from |-> from,
                                           to |-> Len(all)])]
    /\ queue_log' = [queue_log EXCEPT
           !.op = "enqueue",
           !.pending = Append(@, [type |-> "FixCursors", cursors |-> some_cursors])]
    /\ UNCHANGED <<key_trip, notEvents>>

\* EditorEventQueue::enqueue_fix_cursors
EnqueueFixCursors(some_cursors) ==
    /\ Len(queue.write.events) < MaxEvents
    /\ Len(queue.read.cursors) + Len(queue.write.cursors) + Len(some_cursors) <= MaxCursors
    /\ LET from == Len(queue.write.cursors)
           all == queue.write.cursors \o some_cursors
       IN  queue' = [queue EXCEPT
               !.write.cursors = all,
               !.write.events = Append(@, [type |-> "FixCursors", from |-> from,
                                           to |-> Len(all)])]
    /\ queue_log' = [queue_log EXCEPT
           !.op = "enqueue",
           !.pending = Append(@, [type |-> "FixCursors", cursors |-> some_cursors])]
    /\ UNCHANGED <<key_trip, notEvents>>

\* EditorEventQueue::flip
Flip ==
    /\ queue' = [read |-> queue.write,
                 write |-> [queue.read EXCEPT !.events = << >>, !.texts = << >>]]
    /\ queue_log' = [op |-> "flip", pending |-> << >>, flipped |-> queue_log.pending]
    /\ UNCHANGED <<key_trip, notEvents>>

QueueNext ==
    \/ \E type \in {"Idle", "BufferRead"} : EnqueueEvent([type |-> type])
    \/ \E text \in {<< 97 >>, << 97, 98 >>} : EnqueueBufferInsert(text)
    \/ \E some_cursors \in {<< >>, << "c1" >>, << "c1", "c2" >>} :
           EnqueueFixCursors(some_cursors)
    \/ Flip

(***************************************************************************)
(* platforms/windows.rs : AsyncProcess                                     *)
(***************************************************************************)

\* the most bytes the child is sent over all the writes
MaxWritten == 4

\* the bytes handed to write
WriteInputs == UNION {[1 .. n -> {97, 98}] : n \in 0 .. MaxTextLen}

NoStdin == [some |-> FALSE]

\* a process spawned with a piped stdin, or without one
ProcessInit ==
    /\ child_stdin \in {NoStdin, [some |-> TRUE, written |-> << >>]}
    /\ process_call = [op |-> "spawn"]

ProcessIdle ==
    /\ child_stdin = NoStdin
    /\ process_call = [op |-> "spawn"]


\* AsyncProcess::write as it would be if an absent stdin made it return false
ProcessWriteRefusingNoStdin(buf, io_ok) ==
    /\ io_ok \/ (child_stdin.some /\ buf # << >>)
    /\ child_stdin.some => Len(child_stdin.written) + Len(buf) <= MaxWritten
    /\ IF child_stdin.some
       THEN IF io_ok
            THEN /\ child_stdin' = [child_stdin EXCEPT !.written = @ \o buf]
                 /\ process_call' =
                        [op |-> "write", buf |-> buf, failed |-> FALSE, returned |-> TRUE]
            ELSE /\ \E n \in 0 .. Len(buf) - 1 :
                        child_stdin' = [child_stdin EXCEPT !.written = @ \o SubSeq(buf, 1, n)]
                 /\ process_call' =
                        [op |-> "write", buf |-> buf, failed |-> TRUE, returned |-> FALSE]
       ELSE /\ process_call' =
                   [op |-> "write", buf |-> buf, failed |-> FALSE, returned |-> FALSE]
            /\ UNCHANGED child_stdin
    /\ UNCHANGED notProcess

\* AsyncProcess::write : write_all on the child's stdin, which writes nothing and
\* succeeds for no bytes, and on a failure has written less than all the bytes;
\* true without a stdin
ProcessWrite(buf, io_ok) ==
    /\ io_ok \/ (child_stdin.some /\ buf # << >>)
    /\ child_stdin.some => Len(child_stdin.written) + Len(buf) <= MaxWritten
    /\ IF child_stdin.some
       THEN IF io_ok
            THEN /\ child_stdin' = [child_stdin EXCEPT !.written = @ \o buf]
                 /\ process_call' =
                        [op |-> "write", buf |-> buf, failed |-> FALSE, returned |-> TRUE]
            ELSE /\ \E n \in 0 .. Len(buf) - 1 :
                        child_stdin' = [child_stdin EXCEPT !.written = @ \o SubSeq(buf, 1, n)]
                 /\ process_call' =
                        [op |-> "write", buf |-> buf, failed |-> TRUE, returned |-> FALSE]
       ELSE /\ process_call' =
                   [op |-> "write", buf |-> buf, failed |-> FALSE, returned |-> TRUE]
            /\ UNCHANGED child_stdin
    /\ UNCHANGED notProcess

\* AsyncProcess::close_input
CloseInput ==
    /\ child_stdin' = NoStdin
    /\ process_call' = [op |-> "close_input"]
    /\ UNCHANGED notProcess

ProcessNext ==
    \/ \E buf \in WriteInputs, io_ok \in BOOLEAN : ProcessWrite(buf, io_ok)
    \/ CloseInput

(***************************************************************************)
(* buffer.rs : BufferCollection                                            *)
(***************************************************************************)

\* the most buffers the collection grows to
MaxBuffers == 3

\* the contents written into a buffer through get_mut
ContentInputs == {<< << 97 >> >>, << << 97 >>, << 98 >> >>}

BufferClose(handle) == [type |-> "BufferClose", handle |-> handle]

\* Buffer::new, of which the collection keeps alive, handle and content
NewBuffer(handle) == [alive |-> TRUE, handle |-> handle, content |-> NewContent]

\* Buffer::dispose
Dispose(buffer) == [buffer EXCEPT !.alive = FALSE, !.content = NewContent]

\* BufferCollection::default
CollectionInit ==
    /\ buffers = << >>
    /\ collection_call = [op |-> "default"]

\* the handles that index a buffer
Handles == {i - 1 : i \in DOMAIN buffers}

\* the handles of the dead buffers
DeadHandles == {h \in Handles : ~ buffers[h + 1].alive}

\* BufferCollection::add_new as it would be if it took the first slot whatever
\* its buffer
AddNewOverFirst ==
    /\ DeadHandles = { } => Len(buffers) < MaxBuffers
    /\ LET handle == IF buffers # << >>
                     THEN 0
                     ELSE Len(buffers)
           grown == IF handle = Len(buffers)
                    THEN Append(buffers, NewBuffer(handle))
                    ELSE buffers
       IN  /\ buffers' = [grown EXCEPT ![handle + 1].alive = TRUE]
           /\ collection_call' = [op |-> "add_new", returned |-> handle, enqueued |-> << >>]
    /\ UNCHANGED notCollection

\* BufferCollection::add_new
AddNew ==
    /\ DeadHandles = { } => Len(buffers) < MaxBuffers
    /\ LET handle == IF DeadHandles # { }
                     THEN CHOOSE h \in DeadHandles : \A d \in DeadHandles : h <= d
                     ELSE Len(buffers)
           grown == IF handle = Len(buffers)
                    THEN Append(buffers, NewBuffer(handle))
                    ELSE buffers
       IN  /\ buffers' = [grown EXCEPT ![handle + 1].alive = TRUE]
           /\ collection_call' = [op |-> "add_new", returned |-> handle, enqueued |-> << >>]
    /\ UNCHANGED notCollection

\* BufferCollection::get_mut, and the caller's edits on the alive buffer it got
GetMut(handle, lines) ==
    /\ handle \in Handles
    /\ buffers[handle + 1].alive
    /\ buffers' = [buffers EXCEPT ![handle + 1].content = lines]
    /\ collection_call' = [op |-> "get_mut", handle |-> handle, enqueued |-> << >>]
    /\ UNCHANGED notCollection

\* BufferCollection::defer_remove as it would be if it disposed of the buffer too
DeferRemoveDisposing(handle) ==
    /\ handle \in Handles
    /\ buffers' = IF buffers[handle + 1].alive
                  THEN [buffers EXCEPT ![handle + 1] = Dispose(@)]
                  ELSE buffers
    /\ collection_call' =
           [op |-> "defer_remove", handle |-> handle,
            enqueued |-> IF buffers[handle + 1].alive THEN << BufferClose(handle) >>
                         ELSE << >>]
    /\ UNCHANGED notCollection

\* BufferCollection::defer_remove
DeferRemove(handle) ==
    /\ handle \in Handles
    /\ buffers' = buffers
    /\ collection_call' =
           [op |-> "defer_remove", handle |-> handle,
            enqueued |-> IF buffers[handle + 1].alive THEN << BufferClose(handle) >>
                         ELSE << >>]
    /\ UNCHANGED notCollection

\* BufferCollection::remove
Remove(handle) ==
    /\ handle \in Handles
    /\ buffers' = IF buffers[handle + 1].alive
                  THEN [buffers EXCEPT ![handle + 1] = Dispose(@)]
                  ELSE buffers
    /\ collection_call' = [op |-> "remove", handle |-> handle, enqueued |-> << >>]
    /\ UNCHANGED notCollection

CollectionNext ==
    \/ AddNew
    \/ \E handle \in 0 .. MaxBuffers - 1, lines \in ContentInputs : GetMut(handle, lines)
    \/ \E handle \in 0 .. MaxBuffers - 1 : DeferRemove(handle)
    \/ \E handle \in 0 .. MaxBuffers - 1 : Remove(handle)

(***************************************************************************)
(* buffer.rs : Buffer::save_to_file                                        *)
(***************************************************************************)

\* the paths of files that can be created; the empty path is the path of none
FilePaths == {"a", "b"}

NoFile == [exists |-> FALSE]

NoPath == [some |-> FALSE]

\* the new_path arguments of save_to_file
NewPathInputs == {NoPath} \cup {[some |-> TRUE, path |-> p] : p \in FilePaths \cup {""}}

\* Buffer::new: an empty path and the default capabilities, on a file system
\* without files
SaveIdle ==
    /\ path = ""
    /\ can_save = FALSE
    /\ files = [p \in FilePaths |-> NoFile]

\* a buffer with the capabilities and the path its owner gave it
SaveInit ==
    /\ path \in FilePaths \cup {""}
    /\ can_save \in BOOLEAN
    /\ files = [p \in FilePaths |-> NoFile]

\* Buffer::save_to_file. File::create fails or leaves an empty file; the content
\* is written through a BufWriter that lives for the one statement: an error of a
\* write that reaches the file is returned, an error of the flush when the
\* BufWriter is dropped is not, and either leaves less than the content in the
\* file.
SaveToFile(new_path, outcome) ==
    /\ ~ last_call.panicked
    /\ LET given == new_path.some
           may_save == given \/ can_save
           to == IF given THEN new_path.path ELSE path
           written == ContentWrite(content)
       IN  /\ path' = to
           /\ can_save' = may_save
           /\ IF ~ may_save
              THEN /\ outcome = "ok"
                   /\ last_call' = [op |-> "save_to_file", panicked |-> FALSE,
                                    new_path |-> new_path, returned |-> "Ok"]
                   /\ enqueued' = << >>
                   /\ UNCHANGED <<files, needs_save>>
              ELSE /\ to = "" => outcome = "create_fails"
                   /\ \E n \in 0 .. Len(written) :
                          /\ n = Len(written) <=> outcome \in {"create_fails", "ok"}
                          /\ files' =
                                 IF outcome = "create_fails" THEN files
                                 ELSE [files EXCEPT ![to] =
                                          [exists |-> TRUE, bytes |-> SubSeq(written, 1, n)]]
                   /\ last_call' =
                          [op |-> "save_to_file", panicked |-> FALSE, new_path |-> new_path,
                           returned |-> IF outcome \in {"create_fails", "write_fails"}
                                        THEN "Err" ELSE "Ok"]
                   /\ IF outcome \in {"create_fails", "write_fails"}
                      THEN /\ enqueued' = << >>
                           /\ UNCHANGED needs_save
                      ELSE /\ enqueued' = << [type |-> "BufferSave", new_path |-> given] >>
                           /\ needs_save' = FALSE
    /\ UNCHANGED <<content, history, search_ranges, timeline, edit_calls, word_database,
                   cursorVars, receiverVars, serverVars, eventVars, processVars,
                   collectionVars, shiftVars, lateVars>>

SaveNext ==
    \/ \E new_path \in NewPathInputs,
          outcome \in {"create_fails", "write_fails", "flush_fails", "ok"} :
           SaveToFile(new_path, outcome)
    \/ \E text \in {<< 97 >>, << 98, LF >>} : BufferInsertText(<<0, 0>>, text)

(***************************************************************************)
(* BufferPosition::insert and BufferPosition::delete                       *)
(***************************************************************************)

\* a position shift that moves the lines of every position at or after the start
\* of the range and leaves every column
PositionInsertLinesOnly(p, range) ==
    IF PosLT(p, range.from) THEN p
    ELSE << p[1] + (range.to[1] - range.from[1]), p[2] >>

\* BufferPosition::insert: a position before the start of the range stays; one
\* on a later line than the start moves down by the lines of the range; one on
\* the line of the start, at or after it, moves down as far and moves its
\* column by the column the range ends at less the column it starts at
PositionInsert(p, range) ==
    IF PosLT(p, range.from) THEN p
    ELSE IF p[1] > range.from[1]
    THEN << p[1] + (range.to[1] - range.from[1]), p[2] >>
    ELSE << p[1] + (range.to[1] - range.from[1]), (p[2] + range.to[2]) - range.from[2] >>

\* BufferPosition::delete: a position at or before the start of the range
\* stays; one inside the range or at its end goes to the start; one on a later
\* line than the end moves up by the lines of the range; one on the line of the
\* end, after it, goes to the line of the start and keeps its distance in
\* columns from what was the end
PositionDelete(p, range) ==
    IF PosLE(p, range.from) THEN p
    ELSE IF PosLE(p, range.to) THEN range.from
    ELSE IF p[1] > range.to[1]
    THEN << p[1] - (range.to[1] - range.from[1]), p[2] >>
    ELSE << range.from[1], (range.from[2] + p[2]) - range.to[2] >>

ShiftIdle == shift_trip = [step |-> "idle"]

\* the insert process is at p when the range is inserted
ShiftInsert ==
    /\ shift_trip.step = "position"
    /\ shift_trip' = [shift_trip EXCEPT
                         !.step = "inserted",
                         !.at = PositionInsert(shift_trip.p, shift_trip.range)]
    /\ UNCHANGED notShift

\* the range inserted is deleted again
ShiftDelete ==
    /\ shift_trip.step = "inserted"
    /\ shift_trip' = [shift_trip EXCEPT
                         !.step = "deleted",
                         !.at = PositionDelete(shift_trip.at, shift_trip.range)]
    /\ UNCHANGED notShift

ShiftNext ==
    \/ ShiftInsert
    \/ ShiftDelete

(***************************************************************************)
(* platforms/linux.rs : the epoll events of one iteration, in array order   *)
(***************************************************************************)

DispatchClients == 2

MaxReady == 3

DispatchHandles == 0 .. DispatchClients - 1

\* what Epoll::wait yields for one entry of the kernel's array: the listener
\* (index 0), a client slot with its readable and writable flags, a process
EpollEntries ==
    {[kind |-> "listener"], [kind |-> "process"]}
        \cup {e \in [kind : {"client"}, index : DispatchHandles, read : BOOLEAN,
                     write : BOOLEAN] : e.read \/ e.write}

\* two entries of the array are of one file descriptor
SameSource(e1, e2) ==
    /\ e1.kind = e2.kind
    /\ e1.kind = "client" => e1.index = e2.index

\* the arrays epoll_wait can fill while the slots are as in open: up to
\* MaxReady entries in any order, one for a descriptor, none for a vacant slot
EpollArrays(open) ==
    {a \in UNION {[1 .. n -> EpollEntries] : n \in 1 .. MaxReady} :
        /\ \A j, k \in DOMAIN a : j # k => ~ SameSource(a[j], a[k])
        /\ \A k \in DOMAIN a : a[k].kind = "client" => open[a[k].index]}

DispatchIdle ==
    /\ epoll_array = << >>
    /\ array_at = 0
    /\ open_slots = [i \in DispatchHandles |-> FALSE]
    /\ pushed_events = << >>
    /\ update_events = << >>

\* the loop is about to handle the first entry of what epoll.wait returned
DispatchInit ==
    /\ open_slots \in [DispatchHandles -> BOOLEAN]
    /\ epoll_array \in EpollArrays(open_slots)
    /\ array_at = 1
    /\ pushed_events = << >>
    /\ update_events = << >>

\* events.push(event) while the entry at array_at is handled
PushEvent(event) == Append(pushed_events, [event |-> event, at |-> array_at])

\* the body of the for loop where a ConnectionOpen goes in front of the
\* events pushed before it
HandleEpollEventListenerFirst(read_ok, write_ok, exited) ==
    /\ array_at \in DOMAIN epoll_array
    /\ LET e == epoll_array[array_at]
           i == FirstFree({k \in DispatchHandles : ~ open_slots[k]})
       IN  CASE e.kind = "listener" ->
                    /\ ~ read_ok /\ ~ write_ok /\ ~ exited
                    /\ IF i >= 0
                       THEN /\ open_slots' = [open_slots EXCEPT ![i] = TRUE]
                            /\ pushed_events' =
                                   << [event |-> ConnectionOpen(i), at |-> array_at] >>
                                       \o pushed_events
                       ELSE UNCHANGED <<open_slots, pushed_events>>
              [] e.kind = "client" ->
                    /\ ~ exited
                    /\ e.read \/ read_ok
                    /\ (e.write /\ (read_ok \/ ~ e.read)) \/ write_ok
                    /\ IF e.read /\ ~ read_ok
                       THEN /\ open_slots' = [open_slots EXCEPT ![e.index] = FALSE]
                            /\ pushed_events' = PushEvent(ConnectionClose(e.index))
                       ELSE IF ~ write_ok
                       THEN /\ open_slots' = [open_slots EXCEPT ![e.index] = FALSE]
                            /\ pushed_events' =
                                   IF e.read
                                   THEN PushEvent(ConnectionOutput(e.index))
                                            \o << [event |-> ConnectionClose(e.index),
                                                   at |-> array_at] >>
                                   ELSE PushEvent(ConnectionClose(e.index))
                       ELSE /\ pushed_events' = IF e.read THEN PushEvent(ConnectionOutput(e.index))
                                                ELSE pushed_events
                            /\ UNCHANGED open_slots
              [] e.kind = "process" ->
                    /\ ~ read_ok /\ ~ write_ok
                    /\ pushed_events' = PushEvent(IF exited THEN ProcessExit("a")
                                               ELSE ProcessOutput("a"))
                    /\ UNCHANGED open_slots
    /\ array_at' = array_at + 1
    /\ UNCHANGED <<epoll_array, update_events, notDispatch>>

\* the body of the for loop over the epoll events, for the entry at array_at:
\* the listener accepts into the first vacant slot; a client slot is read when
\* readable (read_ok: the read succeeds) and then, if still there, written
\* when writable with buffers queued (~ write_ok: such a write is made and
\* fails); a process gives output or has exited
HandleEpollEvent(read_ok, write_ok, exited) ==
    /\ array_at \in DOMAIN epoll_array
    /\ LET e == epoll_array[array_at]
           i == FirstFree({k \in DispatchHandles : ~ open_slots[k]})
       IN  CASE e.kind = "listener" ->
                    /\ ~ read_ok /\ ~ write_ok /\ ~ exited
                    /\ IF i >= 0
                       THEN /\ open_slots' = [open_slots EXCEPT ![i] = TRUE]
                            /\ pushed_events' = PushEvent(ConnectionOpen(i))
                       ELSE UNCHANGED <<open_slots, pushed_events>>
              [] e.kind = "client" ->
                    /\ ~ exited
                    /\ e.read \/ read_ok
                    /\ (e.write /\ (read_ok \/ ~ e.read)) \/ write_ok
                    /\ IF e.read /\ ~ read_ok
                       THEN /\ open_slots' = [open_slots EXCEPT ![e.index] = FALSE]
                            /\ pushed_events' = PushEvent(ConnectionClose(e.index))
                       ELSE IF ~ write_ok
                       THEN /\ open_slots' = [open_slots EXCEPT ![e.index] = FALSE]
                            /\ pushed_events' =
                                   IF e.read
                                   THEN PushEvent(ConnectionOutput(e.index))
                                            \o << [event |-> ConnectionClose(e.index),
                                                   at |-> array_at] >>
                                   ELSE PushEvent(ConnectionClose(e.index))
                       ELSE /\ pushed_events' = IF e.read THEN PushEvent(ConnectionOutput(e.index))
                                                ELSE pushed_events
                            /\ UNCHANGED open_slots
              [] e.kind = "process" ->
                    /\ ~ read_ok /\ ~ write_ok
                    /\ pushed_events' = PushEvent(IF exited THEN ProcessExit("a")
                                               ELSE ProcessOutput("a"))
                    /\ UNCHANGED open_slots
    /\ array_at' = array_at + 1
    /\ UNCHANGED <<epoll_array, update_events, notDispatch>>

\* after the for loop: with no event the iteration ends (continue), else
\* application.update(events.drain(..))
DispatchUpdate ==
    /\ array_at = Len(epoll_array) + 1
    /\ array_at' = 0
    /\ IF pushed_events = << >>
       THEN UNCHANGED <<pushed_events, update_events>>
       ELSE /\ update_events' = pushed_events
            /\ pushed_events' = << >>
    /\ UNCHANGED <<epoll_array, open_slots, notDispatch>>

DispatchNext ==
    \/ \E read_ok, write_ok, exited \in BOOLEAN : HandleEpollEvent(read_ok, write_ok, exited)
    \/ DispatchUpdate

(***************************************************************************)
(* buffer.rs : the insert processes of a BufferCollection                  *)
(***************************************************************************)

\* processes the collection holds before no more are spawned
MaxInsertProcesses == 2

\* bytes a process gives in one chunk, and in its whole life
MaxOutput == 2

\* calls of spawn_insert_process before no more are made
MaxSpawns == 2

InsertBufferHandles == 0 .. 1

\* the chunks of output: of the bytes 'a' and '\n', and a line that ends with
\* "\r\n", and one of the byte 0xff, which no UTF-8 text holds
OutputInputs ==
    UNION {[1 .. n -> {97, LF}] : n \in 1 .. MaxOutput} \cup {<< CR, LF >>, << 255, LF >>}

\* the positions processes are spawned at: the start of the one line of a
\* buffer, and below the line
SpawnPositions == {<< 0, 0 >>, << 1, 0 >>}

\* std::str::from_utf8(bytes).is_ok()
FromUtf8Ok(bytes) == \A k \in DOMAIN bytes : bytes[k] # 255

\* BufferRange::zero()
RangeZero == [from |-> << 0, 0 >>, to |-> << 0, 0 >>]

\* Buffer::insert_text on the lines of a buffer: the position is saturated, an
\* empty text changes nothing
BufferInsert(lines, position, text) ==
    LET p == SaturatePosition(lines, position)
    IN  IF text = << >> THEN [lines |-> lines, range |-> Between(p, p)]
        ELSE LET r == ContentInsertText(lines, p, text)
             IN  [lines |-> r.lines, range |-> r.range]

NoInsertHistory == [spawned_at |-> << 0, 0 >>, received |-> << >>, inserts |-> << >>]

\* no process was spawned yet; each buffer holds the line "b"
InsertIdle ==
    /\ insert_buffers = [h \in InsertBufferHandles |-> [alive |-> TRUE, lines |-> << << 98 >> >>]]
    /\ insert_processes = << >>
    /\ insert_history = << >>
    /\ insert_spawns = 0

\* as InsertIdle, the second buffer alive or not
InsertInit ==
    /\ insert_buffers \in
           {[h \in InsertBufferHandles |->
                [alive |-> h = 0 \/ alive, lines |-> << << 98 >> >>]] : alive \in BOOLEAN}
    /\ insert_processes = << >>
    /\ insert_history = << >>
    /\ insert_spawns = 0

\* what the history of a process gets by an insertion of text with the result
\* r: the text handed over, the range, and the text the buffer then holds in
\* the range
Inserted(log, text, r) ==
    IF text = << >> THEN log
    ELSE [log EXCEPT !.inserts =
              Append(@, [text |-> text, range |-> r.range,
                         read_back |-> AppendRangeText(r.lines, r.range)])]

\* BufferCollection::spawn_insert_process: the first process that is not
\* alive, or a new one, is set up for the buffer and the position
SpawnInsertProcess(buffer_handle, position) ==
    /\ insert_spawns < MaxSpawns
    /\ insert_spawns' = insert_spawns + 1
    /\ LET dead == {k \in DOMAIN insert_processes : ~ insert_processes[k].alive}
           index == IF dead # {} THEN CHOOSE k \in dead : \A j \in dead : k <= j
                    ELSE Len(insert_processes) + 1
           process == [alive |-> TRUE, buffer_handle |-> buffer_handle,
                       position |-> position, output |-> << >>]
           log == [NoInsertHistory EXCEPT !.spawned_at = position]
       IN  /\ index <= MaxInsertProcesses
           /\ IF dead # {}
              THEN /\ insert_processes' = [insert_processes EXCEPT ![index] = process]
                   /\ insert_history' = [insert_history EXCEPT ![index] = log]
              ELSE /\ insert_processes' = Append(insert_processes, process)
                   /\ insert_history' = Append(insert_history, log)
    /\ UNCHANGED <<insert_buffers, notInsert>>

\* BufferCollection::on_process_output: the bytes are appended to the output
\* of the process; with a '\n' in it and the buffer alive, the output up to
\* and with its last '\n' is inserted at the saturated position of the process
\* if it is UTF-8, and drained in any case, and the position of every process
\* of that buffer goes through insert(insert_range)
OnProcessOutput(index, bytes) ==
    /\ index + 1 \in DOMAIN insert_processes
    /\ insert_processes[index + 1].alive
    /\ Len(insert_history[index + 1].received) + Len(bytes) <= MaxOutput
    /\ LET process == insert_processes[index + 1]
           output == process.output \o bytes
           newlines == {k \in DOMAIN output : output[k] = LF}
           upto == CHOOSE k \in newlines : \A j \in newlines : j <= k
           buffer == insert_buffers[process.buffer_handle]
           text == SubSeq(output, 1, upto)
           ok == FromUtf8Ok(text)
           position == IF ok THEN SaturatePosition(buffer.lines, process.position)
                       ELSE process.position
           r == IF ok THEN BufferInsert(buffer.lines, position, text)
                ELSE [lines |-> buffer.lines, range |-> RangeZero]
           received == [insert_history[index + 1] EXCEPT !.received = @ \o bytes]
       IN  IF newlines = {} \/ ~ buffer.alive
           THEN /\ insert_processes' = [insert_processes EXCEPT ![index + 1].output = output]
                /\ insert_history' = [insert_history EXCEPT ![index + 1] = received]
                /\ UNCHANGED insert_buffers
           ELSE /\ insert_buffers' = [insert_buffers EXCEPT ![process.buffer_handle].lines = r.lines]
                /\ insert_processes' =
                       [k \in DOMAIN insert_processes |->
                           LET p == IF k = index + 1
                                    THEN [process EXCEPT
                                              !.position = position,
                                              !.output = SubSeq(output, upto + 1, Len(output))]
                                    ELSE insert_processes[k]
                           IN  IF p.buffer_handle = process.buffer_handle
                               THEN [p EXCEPT !.position = PositionInsert(@, r.range)]
                               ELSE p]
                /\ insert_history' =
                       [insert_history EXCEPT
                           ![index + 1] = Inserted(received, IF ok THEN text ELSE << >>, r)]
    /\ UNCHANGED <<insert_spawns, notInsert>>

\* BufferCollection::on_process_exit: the process is no longer alive; what is
\* left of its output is inserted at its position if the buffer is alive and
\* the output is UTF-8
OnProcessExit(index) ==
    /\ index + 1 \in DOMAIN insert_processes
    /\ insert_processes[index + 1].alive
    /\ LET process == insert_processes[index + 1]
           buffer == insert_buffers[process.buffer_handle]
           r == BufferInsert(buffer.lines, process.position, process.output)
       IN  /\ insert_processes' = [insert_processes EXCEPT ![index + 1].alive = FALSE]
           /\ IF buffer.alive /\ FromUtf8Ok(process.output)
              THEN /\ insert_buffers' =
                          [insert_buffers EXCEPT ![process.buffer_handle].lines = r.lines]
                   /\ insert_history' =
                          [insert_history EXCEPT
                              ![index + 1] = Inserted(@, process.output, r)]
              ELSE UNCHANGED <<insert_buffers, insert_history>>
    /\ UNCHANGED <<insert_spawns, notInsert>>

InsertNext ==
    \/ \E buffer_handle \in InsertBufferHandles, position \in SpawnPositions :
           SpawnInsertProcess(buffer_handle, position)
    \/ \E index \in 0 .. MaxInsertProcesses - 1, bytes \in OutputInputs :
           OnProcessOutput(index, bytes)
    \/ \E index \in 0 .. MaxInsertProcesses - 1 : OnProcessExit(index)

(***************************************************************************)
(* plugin-lsp/src/client.rs : the document versions of a Client            *)
(***************************************************************************)

\* buffer handles the editor's events are about
LspBuffers == 2

\* a VersionedBuffer is flushed until its version is this
MaxVersion == 5

\* edits a VersionedBuffer holds before no more are added
MaxPending == 2

LspHandles == 0 .. LspBuffers - 1

\* VersionedBuffer::new, with the number of its pending_edits
NewVersionedBuffer == [version |-> 2, pending_edits |-> 0]

\* VersionedBuffer::flush
VersionedFlush(buffer) == [version |-> buffer.version + 1, pending_edits |-> 0]

\* VersionedBuffer::dispose
VersionedDispose(buffer) == [VersionedFlush(buffer) EXCEPT !.version = 1]

\* VersionedBufferCollection::add_edit: the collection is resized to hold the
\* buffer, and the buffer gets the edit
AddEdit(collection, handle) ==
    LET new_len == IF Len(collection) > handle + 1 THEN Len(collection) ELSE handle + 1
        resized == [i \in 1 .. new_len |->
                        IF i <= Len(collection) THEN collection[i] ELSE NewVersionedBuffer]
    IN  [resized EXCEPT ![handle + 1].pending_edits = @ + 1]

\* VersionedBufferCollection::dispose
CollectionDispose(collection, handle) ==
    IF handle + 1 \in DOMAIN collection
    THEN [collection EXCEPT ![handle + 1] = VersionedDispose(@)]
    ELSE collection

\* the notifications sent for a document since its textDocument/didOpen
NoneSent == [h \in LspHandles |-> << >>]

\* no event has reached the client
LspIdle ==
    /\ versioned_buffers = << >>
    /\ lsp_can_save = [h \in LspHandles |-> TRUE]
    /\ lsp_sent = NoneSent
    /\ lsp_event = "none"

\* the client is initialized, the server takes didOpen and didClose; of each
\* buffer properties.can_save is set or not
LspInit ==
    /\ versioned_buffers = << >>
    /\ lsp_can_save \in [LspHandles -> BOOLEAN]
    /\ lsp_sent = NoneSent
    /\ lsp_event = "none"

\* util::send_pending_did_change: of every buffer with pending edits, one
\* that cannot be saved is flushed, and for any other a
\* textDocument/didChange with the buffer's version is sent and the buffer
\* flushed; what the collection and the notifications sent are after it
SendPendingDidChange(collection, notified) ==
    LET pending(i) == collection[i].pending_edits > 0
    IN  [collection |-> [i \in DOMAIN collection |->
                            IF pending(i) THEN VersionedFlush(collection[i])
                            ELSE collection[i]],
         notified |-> [h \in LspHandles |->
                      IF h + 1 \in DOMAIN collection /\ pending(h + 1) /\ lsp_can_save[h]
                      THEN Append(notified[h], [method |-> "didChange",
                                            version |-> collection[h + 1].version])
                      ELSE notified[h]]]

\* util::send_did_open: textDocument/didOpen with version 1, for a buffer
\* that can be saved
SendDidOpen(notified, handle) ==
    IF lsp_can_save[handle]
    THEN [notified EXCEPT ![handle] = << [method |-> "didOpen", version |-> 1] >>]
    ELSE notified

\* util::send_did_close: textDocument/didClose, for a buffer that can be saved
SendDidClose(notified, handle) ==
    IF lsp_can_save[handle] THEN [notified EXCEPT ![handle] = << >>] ELSE notified

\* the versions stay below the bound
Flushable(collection) ==
    \A i \in DOMAIN collection : collection[i].version < MaxVersion

\* Client::on_editor_events, for one event of the editor
OnEditorEvent(event, handle) ==
    /\ Flushable(versioned_buffers)
    /\ lsp_event' = event
    /\ CASE event = "Idle" ->
                LET r == SendPendingDidChange(versioned_buffers, lsp_sent)
                IN  /\ handle = 0
                    /\ versioned_buffers' = r.collection
                    /\ lsp_sent' = r.notified
         [] event = "BufferRead" ->
                /\ versioned_buffers' = CollectionDispose(versioned_buffers, handle)
                /\ lsp_sent' = SendDidOpen(lsp_sent, handle)
         [] event \in {"BufferInsertText", "BufferDeleteText"} ->
                /\ handle + 1 \in DOMAIN versioned_buffers =>
                       versioned_buffers[handle + 1].pending_edits < MaxPending
                /\ versioned_buffers' = AddEdit(versioned_buffers, handle)
                /\ UNCHANGED lsp_sent
         [] event = "BufferWrite" ->
                LET r == SendPendingDidChange(versioned_buffers, lsp_sent)
                IN  /\ versioned_buffers' = r.collection
                    /\ lsp_sent' = r.notified
         [] event = "BufferClose" ->
                LET r == SendPendingDidChange(CollectionDispose(versioned_buffers, handle),
                                              lsp_sent)
                IN  /\ versioned_buffers' = r.collection
                    /\ lsp_sent' = SendDidClose(r.notified, handle)
    /\ UNCHANGED <<lsp_can_save, notLsp>>

LspNext ==
    \E event \in {"Idle", "BufferRead", "BufferInsertText", "BufferDeleteText", "BufferWrite",
                  "BufferClose"}, handle \in LspHandles :
        OnEditorEvent(event, handle)

EarlyIdle == ProcessIdle /\ CollectionInit /\ SaveIdle /\ ShiftIdle

LateIdle == DispatchIdle /\ InsertIdle /\ LspIdle

RestIdle == EarlyIdle /\ LateIdle

(***************************************************************************)
(* Specifications                                                          *)
(***************************************************************************)

InitCursor ==
    CursorInit /\ ReceiverIdle /\ ServerInit /\ ContentInit /\ BufferInit /\ KeyIdle /\ QueueInit
    /\ RestIdle

SpecCursor == InitCursor /\ [][CursorNext]_vars

InitReceiver ==
    ReceiverInit /\ CursorInit /\ ServerInit /\ ContentInit /\ BufferInit /\ KeyIdle /\ QueueInit
    /\ RestIdle

SpecReceiver == InitReceiver /\ [][ReceiverNext]_vars

Init ==
    ServerInit /\ CursorInit /\ ReceiverIdle /\ ContentInit /\ BufferInit /\ KeyIdle /\ QueueInit
    /\ RestIdle

Spec == Init /\ [][Next]_vars

InitContent ==
    ContentInit /\ CursorInit /\ ReceiverIdle /\ ServerInit /\ BufferInit /\ KeyIdle /\ QueueInit
    /\ RestIdle

SpecContent == InitContent /\ [][ContentNext]_vars

SpecRead == InitContent /\ [][ReadNext]_vars

InitBuffer ==
    BufferInit /\ ContentInit /\ CursorInit /\ ReceiverIdle /\ ServerInit /\ KeyIdle /\ QueueInit
    /\ RestIdle

SpecBuffer == InitBuffer /\ [][BufferNext]_vars

InitKey ==
    /\ key_trip \in {[step |-> "key", key |-> key] : key \in KeyInputs}
    /\ QueueInit /\ CursorInit /\ ReceiverIdle /\ ServerInit /\ ContentInit /\ BufferInit
    /\ RestIdle

SpecKey == InitKey /\ [][KeyNext]_vars

InitQueue ==
    /\ QueueInit /\ KeyIdle
    /\ CursorInit /\ ReceiverIdle /\ ServerInit /\ ContentInit /\ BufferInit
    /\ RestIdle

SpecQueue == InitQueue /\ [][QueueNext]_vars

InitProcess ==
    /\ ProcessInit /\ CollectionInit /\ SaveIdle /\ ShiftIdle /\ LateIdle
    /\ QueueInit /\ KeyIdle /\ CursorInit /\ ReceiverIdle /\ ServerInit /\ ContentInit
    /\ BufferInit

SpecProcess == InitProcess /\ [][ProcessNext]_vars

InitCollection ==
    /\ CollectionInit /\ ProcessIdle /\ SaveIdle /\ ShiftIdle /\ LateIdle
    /\ QueueInit /\ KeyIdle /\ CursorInit /\ ReceiverIdle /\ ServerInit /\ ContentInit
    /\ BufferInit

SpecCollection == InitCollection /\ [][CollectionNext]_vars

InitSave ==
    /\ SaveInit /\ BufferInit /\ ContentInit
    /\ ProcessIdle /\ CollectionInit /\ ShiftIdle /\ LateIdle
    /\ QueueInit /\ KeyIdle /\ CursorInit /\ ReceiverIdle /\ ServerInit

SpecSave == InitSave /\ [][SaveNext]_vars

InitShift ==
    /\ shift_trip \in {[step |-> "position", p |-> p, range |-> range, at |-> p] :
                            p \in PositionInputs, range \in RangeInputs}
    /\ ProcessIdle /\ CollectionInit /\ SaveIdle /\ LateIdle
    /\ QueueInit /\ KeyIdle /\ CursorInit /\ ReceiverIdle /\ ServerInit /\ ContentInit
    /\ BufferInit

SpecShift == InitShift /\ [][ShiftNext]_vars

InitDispatch ==
    /\ DispatchInit /\ InsertIdle /\ LspIdle
    /\ EarlyIdle
    /\ QueueInit /\ KeyIdle /\ CursorInit /\ ReceiverIdle /\ ServerInit /\ ContentInit
    /\ BufferInit

SpecDispatch == InitDispatch /\ [][DispatchNext]_vars

InitInsert ==
    /\ InsertInit /\ DispatchIdle /\ LspIdle
    /\ EarlyIdle
    /\ QueueInit /\ KeyIdle /\ CursorInit /\ ReceiverIdle /\ ServerInit /\ ContentInit
    /\ BufferInit

SpecInsert == InitInsert /\ [][InsertNext]_vars

InitLsp ==
    /\ LspInit /\ DispatchIdle /\ InsertIdle
    /\ EarlyIdle
    /\ QueueInit /\ KeyIdle /\ CursorInit /\ ReceiverIdle /\ ServerInit /\ ContentInit
    /\ BufferInit

SpecLsp == InitLsp /\ [][LspNext]_vars

(***************************************************************************)
(* Properties of the cursor collection                                     *)
(***************************************************************************)

RangeOf(k) == ToRange(cursors[k])

\* a guard was released and its drop ran to the end
Released == guard = "none" /\ released.happened

SortedByFrom ==
    \A a, b \in 0 .. len - 1 : a < b => PosLE(RangeOf(a).from, RangeOf(b).from)

\* two live cursors overlap or touch: one starts inside or at the end of the other
OverlapOrTouch(a, b) ==
    PosLE(RangeOf(a).from, RangeOf(b).from) /\ PosLE(RangeOf(b).from, RangeOf(a).to)

\* C3: after every release of the guard the collection is sorted by range.from
\* and no two cursors' ranges overlap or touch.
C3_SortedAndDisjoint ==
    Released =>
        /\ SortedByFrom
        /\ \A a, b \in 0 .. len - 1 : a # b => ~ OverlapOrTouch(a, b)

\* C4: whatever the guard operations were (any index given to
\* set_main_cursor_index included), the release of the guard completes and leaves
\* 1 <= len <= capacity and main_cursor_index < len; a guard that left the
\* collection empty leaves the single zero cursor.
C4_LenAndMainIndex ==
    released.happened =>
        /\ guard = "none"
        /\ 1 <= len /\ len <= capacity
        /\ main_cursor_index < len
        /\ released.emptied => (len = 1 /\ cursors[0] = CursorZero)

RangeContains(outer, inner) == PosLE(outer.from, inner.from) /\ PosLE(inner.to, outer.to)

\* the release that scenario (c) performs: carets (0,0), (0,0), (1,0), the last one main
MoveUpScenario ==
    /\ released.n = 3
    /\ released.main = 2
    /\ released.sorted[0] = NewCursor(<<0, 0>>, <<0, 0>>)
    /\ released.sorted[1] = NewCursor(<<0, 0>>, <<0, 0>>)
    /\ released.sorted[2] = NewCursor(<<1, 0>>, <<1, 0>>)

\* C5: after a release the main cursor is the cursor the former main cursor was
\* sorted or merged into, so its range covers the former main cursor's range; the
\* three carets (0,0), (1,0), (2,0) moved one line up leave (0,0) and (1,0) with
\* the main cursor at (1,0).
C5_MainCursorIdentity ==
    (Released /\ released.main < released.n) =>
        /\ RangeContains(RangeOf(main_cursor_index), ToRange(released.main_cursor))
        /\ MoveUpScenario =>
              /\ len = 2
              /\ cursors[0] = NewCursor(<<0, 0>>, <<0, 0>>)
              /\ cursors[1] = NewCursor(<<1, 0>>, <<1, 0>>)
              /\ main_cursor_index = 1

\* index in the sorted slice of the first cursor that starts where live cursor k starts:
\* the lower-index input of the merge that produced cursor k
Leader(k) ==
    CHOOSE m \in 0 .. released.n - 1 :
        /\ ToRange(released.sorted[m]).from = RangeOf(k).from
        /\ \A o \in 0 .. m - 1 : ToRange(released.sorted[o]).from # RangeOf(k).from

\* the sorted inputs merged into live cursor k
MergeGroup(k) == Leader(k) .. (IF k + 1 < len THEN Leader(k + 1) ELSE released.n) - 1

\* C6: every cursor a release leaves spans the inputs merged into it and has the
\* orientation of the lowest-index input of that merge: anchor = from and
\* position = to when that input had anchor <= position, the reverse otherwise.
C6_MergeKeepsOrientation ==
    (Released /\ ~ released.panicked) =>
        \A k \in 0 .. len - 1 :
            LET lead == released.sorted[Leader(k)]
                merged_range == RangeOf(k)
            IN  /\ \A m \in MergeGroup(k) : PosLE(ToRange(released.sorted[m]).to, merged_range.to)
                /\ \E m \in MergeGroup(k) : ToRange(released.sorted[m]).to = merged_range.to
                /\ PosLE(lead.anchor, lead.position) =>
                      (cursors[k].anchor = merged_range.from /\ cursors[k].position = merged_range.to)
                /\ ~ PosLE(lead.anchor, lead.position) =>
                      (cursors[k].anchor = merged_range.to /\ cursors[k].position = merged_range.from)

\* a release merged a reversed selection with another cursor and grew it
C6_Witness ==
    /\ Released
    /\ \E k \in 0 .. len - 1 :
          /\ Cardinality(MergeGroup(k)) >= 2
          /\ PosLT(cursors[k].position, cursors[k].anchor)
          /\ cursors[k] # released.sorted[Leader(k)]

(***************************************************************************)
(* Properties of the client event receiver                                 *)
(***************************************************************************)

\* the bytes the receiver keeps for the connection
PendingBytes == IF batches.handle < Len(bufs) THEN bufs[batches.handle + 1] ELSE << >>

\* everything the client wrote is a serialized event
AllSerialized == \A k \in 1 .. Len(sent) : sent[k].type # "Corrupt"

\* every byte was fed and the last batch was iterated until next returned None
AllFed == wire = << >> /\ iter = NoIter /\ ~ batches.early

\* C7: when a client serializes N events into one byte vector and the receiver
\* is fed that vector in any split into chunks, the events handed out are at
\* every moment the first events written, in order; once every chunk is fed
\* and the last batch is finished they are exactly the N events and the
\* connection's buffer holds zero bytes.
C7_ChunkedRoundTrip ==
    AllSerialized =>
        /\ Len(got) <= Len(sent) /\ got = SubSeq(sent, 1, Len(got))
        /\ AllFed => got = sent /\ PendingBytes = << >>

\* C7 witness: two events were written, a chunk boundary fell inside an event
\* (a batch ended on UnexpectedEof), and after the last finish both events
\* were handed out.
C7_Witness ==
    /\ AllSerialized /\ AllFed
    /\ Len(sent) = MaxFrames /\ got = sent
    /\ batches.partial
    /\ PendingBytes = << >>

\* C8: after a batch whose deserialization failed with invalid data, the
\* connection's pending bytes are discarded: its buffer is empty once the
\* batch is finished.
C8_InvalidBytesDiscarded ==
    (iter = NoIter /\ batches.invalid) => PendingBytes = << >>

(***************************************************************************)
(* Properties of the server loop                                           *)
(***************************************************************************)

\* C1: in a quiet period (no client or process readiness since the idle timer
\* was armed) the loop pushes Idle once and pushes no further Idle until the
\* next readiness event, whatever requests the editor enqueues: the Idle
\* events pushed since the last readiness event are never more than one.
C1_OneIdlePerQuietPeriod == idles.quiet <= 1

\* an epoll wait just timed out on the idle duration
IdleTimerExpired == pc = "events" /\ epoll_events_len = 0 /\ previous_timeout = "Idle"

\* C1 as amended: when the idle timer expires with no readiness the loop
\* pushes Idle, as the last event the editor is about to get, and disarms the
\* timer; no further Idle is pushed until a readiness event or until the
\* request drain sets the timeout back to zero (a Redraw request, or requests
\* whose handling pushed an event).
C1_OneIdlePerArmedTimer ==
    /\ idles.armed <= 1
    /\ IdleTimerExpired =>
           /\ events # << >> /\ events[Len(events)] = Idle
           /\ timeout = "None"
           /\ idles.armed = 1

\* C1 witness: the quiet period after an Idle: the editor was handed the one
\* Idle, its update is over, and the loop is about to block with no timer
\* while a full write queue and a process are still there.
C1_Witness ==
    /\ pc = "wait" /\ timeout = "None" /\ events = << >>
    /\ idles = [quiet |-> 1, armed |-> 1]
    /\ client_write_queue[0] = MaxQueue
    /\ \E i \in ProcessHandles : processes[i].some

\* C2: once Quit is processed the loop has returned with every pooled buffer
\* back in the pool (as many releases as acquires): no write queue and no
\* queued request holds one.
C2_QuitReleasesEveryBuffer ==
    pc = "done" =>
        /\ lent = 0
        /\ requests = << >>
        /\ \A i \in ClientHandles : client_write_queue[i] = 0

\* C2 witness: Quit was processed while a write queue held a buffer and a
\* request carrying a buffer was queued behind it.
C2_Witness ==
    /\ pc = "done"
    /\ quit_released.queued >= 1
    /\ quit_released.pending >= 1
    /\ lent = 0

\* the events a step appended to the event list
Pushed == IF Len(events') >= Len(events) THEN SubSeq(events', Len(events) + 1, Len(events')) ELSE << >>

\* the slots a step vacated
Vacated == {i \in ProcessHandles : processes[i].some /\ ~ processes'[i].some}

\* the history of every process slot: a live process has no ProcessExit yet, a
\* process that left its slot has exactly one, with its tag
OneExitPerLifetime ==
    \A i \in ProcessHandles :
        IF processes[i].some
        THEN lifetimes[i] = [spawned |-> TRUE, tag |-> processes[i].tag, exits |-> << >>]
        ELSE lifetimes[i].spawned => lifetimes[i].exits = << lifetimes[i].tag >>

\* a step pushes a ProcessExit for each slot it vacates, with the tag of the
\* process that held the slot, and no other ProcessExit unless it handled a
\* SpawnProcess that spawned nothing; a process leaves its slot only this way
ExitsAreVacatedSlots ==
    LET exits == SelectSeq(Pushed, LAMBDA e : e.type = "ProcessExit")
        failed_spawn == Draining("SpawnProcess") /\ processes' = processes
    IN  /\ Cardinality(Vacated) <= 1
        /\ \A i \in Vacated : exits = << ProcessExit(processes[i].tag) >>
        /\ Vacated = {} /\ ~ failed_spawn => exits = << >>
        /\ \A i \in ProcessHandles :
               processes[i].some /\ processes'[i].some => processes'[i] = processes[i]

\* C9: every process that was spawned gets exactly one ProcessExit with its
\* tag, pushed by the step that vacates its slot, whichever of KillProcess, a
\* failed WriteToProcess or a pipe error comes first and whatever follows.
C9_OneExitPerSpawn == []OneExitPerLifetime /\ [][ExitsAreVacatedSlots]_vars

\* C9 witness: a process has left its slot, the request drain is over and the
\* one ProcessExit with its tag is the only event waiting for the editor.
C9_Witness ==
    \E i \in ProcessHandles :
        /\ ~ processes[i].some
        /\ lifetimes[i].spawned /\ lifetimes[i].exits = << lifetimes[i].tag >>
        /\ pc = "wait" /\ requests = << >>
        /\ Len(events) = 1 /\ events[1] = ProcessExit(lifetimes[i].tag)

\* C10: a SpawnProcess request pushes exactly one event: ProcessSpawned with
\* its tag and a handle that was vacant (and now holds the process) when a
\* slot was vacant and the spawn succeeded, ProcessExit with its tag otherwise.
C10_SpawnedOrExit ==
    last_spawn.happened =>
        LET pushed == last_spawn.pushed
            tag == last_spawn.tag
        IN  /\ Len(pushed) = 1
            /\ Len(events) >= 1 /\ events[Len(events)] = pushed[1]
            /\ IF last_spawn.vacant # {} /\ last_spawn.spawn_ok
               THEN \E handle \in last_spawn.vacant :
                        /\ pushed[1] = ProcessSpawned(tag, handle)
                        /\ processes[handle] = NewProcess(tag)
               ELSE /\ pushed[1] = ProcessExit(tag)
                    /\ \A handle \in last_spawn.vacant : ~ processes[handle].some

\* C10 witness: a SpawnProcess found the process table full and pushed
\* ProcessExit, after spawns that succeeded.
C10_Witness ==
    /\ last_spawn.happened
    /\ last_spawn.vacant = {}
    /\ last_spawn.pushed = << ProcessExit(last_spawn.tag) >>
    /\ \E k \in DOMAIN events : events[k].type = "ProcessSpawned"

\* the client connections a step removed
Removed == {i \in ClientHandles : client_connections[i] /\ ~ client_connections'[i]}

\* a step that removes a client connection pushes ConnectionClose with that
\* connection's handle, once, as the last event it pushes
ClosePushedOnRemoval ==
    \A i \in Removed :
        /\ Len(events') > Len(events)
        /\ SubSeq(events', 1, Len(events)) = events
        /\ events'[Len(events')] = ConnectionClose(i)
        /\ Len(SelectSeq(Pushed, LAMBDA e : e = ConnectionClose(i))) = 1

BuffersAccounted ==
    lent = Sum([k \in DOMAIN events |-> EventBufs(events[k])])
               + Sum([k \in DOMAIN requests |-> RequestBufs(requests[k])])
               + Sum([i \in 1 .. MAX_CLIENT_COUNT |-> client_write_queue[i - 1]])

\* what handling a write request does with the buffer it carries
WriteRequestBuffer ==
    /\ Draining("WriteToClient") =>
           LET index == Head(requests).handle
           IN  IF client_connections[index]
               THEN /\ lent' <= lent
                    /\ client_write_queue'[index] + (lent - lent')
                           = client_write_queue[index] + 1
               ELSE /\ lent' = lent - 1
                    /\ client_write_queue' = client_write_queue
    /\ Draining("WriteToProcess") =>
           /\ lent' = lent - 1
           /\ client_write_queue' = client_write_queue

\* C12: every pooled buffer carried by a WriteToClient or WriteToProcess
\* request is accounted for exactly once: the buffer of a WriteToClient whose
\* connection is closed is released to the pool, otherwise it joins that
\* client's write queue (which the write then drains from the front); the
\* buffer of a WriteToProcess is released whether the write succeeds, fails or
\* the slot is vacant.
C12_WriteBuffersAccounted == []BuffersAccounted /\ [][WriteRequestBuffer]_vars

\* C12 witness: a WriteToProcess whose write failed has just been handled and
\* its buffer is back in the pool, while the buffers of earlier WriteToClient
\* requests sit in the write queue of client 0: they are all that is lent.
C12_Witness ==
    /\ last_write.happened /\ last_write.type = "WriteToProcess"
    /\ last_write.present /\ ~ last_write.ok
    /\ client_write_queue[0] >= 1
    /\ lent = client_write_queue[0]

\* every client slot holds a connection
ClientTableFull == \A i \in ClientHandles : client_connections[i]

\* the step handles the epoll event of the listener: it accepts a connection
AcceptStep == \E e \in epoll_events : e.kind = "listener" /\ e \notin epoll_events'

\* a connection accepted while the table is full leaves the slots, their
\* write queues and the event list as they are
DroppedWhenFull ==
    AcceptStep /\ ClientTableFull =>
        /\ client_connections' = client_connections
        /\ client_write_queue' = client_write_queue
        /\ events' = events

\* the open clients fit the client table
ClientsWithinTable ==
    /\ DOMAIN client_connections = ClientHandles
    /\ Cardinality({i \in ClientHandles : client_connections[i]}) <= MAX_CLIENT_COUNT

\* C13: when every client slot is occupied, a newly accepted connection is
\* closed without a ConnectionOpen and without a change to any client slot, so
\* the open clients never outnumber the slots of the client table.
C13_FullTableDropsConnection == []ClientsWithinTable /\ [][DroppedWhenFull]_vars

\* C13 witness: the one epoll event of this wait was handled and left no
\* trace: no event was pushed, no write-only event was counted, no write queue
\* or process could have taken it, and every client slot is occupied: it was
\* the listener, and the accepted connection was dropped.
C13_Witness ==
    /\ pc = "events" /\ epoll_events = {} /\ epoll_events_len = 1
    /\ empty_write_event_count = 0
    /\ events = << >>
    /\ ClientTableFull
    /\ \A i \in ClientHandles : client_write_queue[i] = 0
    /\ \A i \in ProcessHandles : ~ processes[i].some

(***************************************************************************)
(* Properties of BufferContent                                             *)
(***************************************************************************)

\* the text ends with a newline
EndsWithNewline(text) == text # << >> /\ text[Len(text)] = LF

\* the step is insert_text(zero, T) on a buffer holding one empty line
InsertIntoEmpty ==
    /\ content = NewContent
    /\ last_call'.op = "insert_text" /\ last_call'.position = << 0, 0 >>
    /\ ~ last_call'.panicked

RECURSIVE NormalizedNewlines(_)
NormalizedNewlines(text) ==
    IF text = << >> THEN << >>
    ELSE IF Len(text) >= 2 /\ text[1] = CR /\ text[2] = LF
    THEN << LF >> \o NormalizedNewlines(SubSeq(text, 3, Len(text)))
    ELSE << Head(text) >> \o NormalizedNewlines(Tail(text))

C18_RangeCoversInsertedText ==
    last_call.op = "insert_text" /\ ~ last_call.panicked =>
        /\ last_call.range.from = last_call.position
        /\ AppendRangeText(content, last_call.range) = last_call.text

\* what a step that calls insert_text or delete_range does when the position
\* (both endpoints for delete) is clamped first: it does not fail and leaves
\* the content the operation leaves at the clamped location
AppliedAtClampedPosition ==
    /\ last_call'.op = "insert_text" =>
           LET position == SaturatePosition(content, last_call'.position)
           IN  /\ ~ last_call'.panicked
               /\ content' = ContentInsertText(content, position, last_call'.text).lines
    /\ last_call'.op = "delete_range" =>
           LET from == SaturatePosition(content, last_call'.range.from)
               to == SaturatePosition(content, last_call'.range.to)
           IN  /\ ~ last_call'.panicked
               /\ content' = ContentDeleteRange(content, Between(from, to)).lines

\* C19: BufferContent insert_text and delete_range accept any position, also
\* one past the last line or past the end of a line: the position (both
\* endpoints for delete) is clamped by saturate_position first and the
\* operation is applied at the clamped location without failing.
C19_AnyPositionIsClamped == [][AppliedAtClampedPosition]_vars

(***************************************************************************)
(* Properties of Buffer with its History                                   *)
(***************************************************************************)

\* C14: after a sequence of insert_text and delete_range calls closed by
\* commit_edits, undo leaves the content exactly as it was before the
\* sequence, and a redo after it leaves the content exactly as it was after
\* the sequence; neither of them panics. timeline holds the content at every
\* commit boundary, so after an undo or a redo that handed over edits the
\* content is the one recorded at the boundary the history now stands at.
C14_UndoRedoRestoreContent ==
    last_call.op \in {"undo", "redo"} =>
        /\ ~ last_call.panicked
        /\ last_call.edits > 0 => content = timeline[Len(history.past) + 1]

\* C14 witness: two newlines inserted and deleted again by one multi-line
\* delete_range, the group committed, undone and redone
C14_Witness ==
    /\ last_call.op = "redo"
    /\ last_call.edits > 3
    /\ timeline = << NewContent, NewContent >>
    /\ content = NewContent
    /\ Len(history.past) = 1
    /\ history.past[1][1].text = << LF, LF >>
    /\ history.future = << >>


\* C20: a Buffer::insert_text with an empty text returns the empty range at
\* the saturated position, and it, like a Buffer::delete_range whose saturated
\* endpoints are equal, changes no field of the buffer and enqueues no event
EmptyEditIsNoOp ==
    LET empty_insert == /\ last_call'.op = "Buffer::insert_text"
                        /\ last_call'.text = << >>
        empty_delete == /\ last_call'.op = "Buffer::delete_range"
                        /\ last_call'.range.from = last_call'.range.to
    IN  /\ empty_insert =>
               \E position \in PositionInputs :
                   last_call'.range = Between(SaturatePosition(content, position),
                                              SaturatePosition(content, position))
        /\ empty_insert \/ empty_delete =>
               /\ UNCHANGED <<content, history, search_ranges, needs_save>>
               /\ enqueued' = << >>

C20_EmptyEditChangesNothing == [][EmptyEditIsNoOp]_vars


(***************************************************************************)
(* Properties of Key and of EditorEventQueue                               *)
(***************************************************************************)

\* C16, as stated: parsing the text that formatting a key gives yields that
\* key again, for every key; and the text of F(n), 1 <= n <= 99, is "<f", the
\* decimal digits of n, ">"
C16_KeyRoundTrip ==
    /\ key_trip.step = "parsed" =>
           /\ key_trip.parsed.ok
           /\ key_trip.parsed.key = key_trip.key
    /\ /\ key_trip.step \in {"text", "parsed"}
       /\ key_trip.key.kind = "F"
       /\ key_trip.key.n \in 1 .. 99
       => LET n == key_trip.key.n
              digits == << "0", "1", "2", "3", "4", "5", "6", "7", "8", "9" >>
              decimal == IF n < 10 THEN << digits[n + 1] >>
                         ELSE << digits[(n \div 10) + 1], digits[(n % 10) + 1] >>
          IN  key_trip.text = << "<", "f" >> \o decimal \o << ">" >>

\* C16, amended: parsing the text that formatting a key gives yields that key
\* again and uses the whole text, for every key other than None, F(n) with
\* n > 99, and Ctrl(c) or Alt(c) with a c that is no ASCII letter or digit, and
\* for none of these; and the text of F(n), 1 <= n <= 99, is "<f", the decimal
\* digits of n, ">"
C16_KeysWithATextRoundTrip ==
    LET key == key_trip.key
        has_text == /\ key.kind # "None"
                    /\ key.kind = "F" => key.n <= 99
                    /\ key.kind \in {"Ctrl", "Alt"} => IsAsciiAlphanumeric(key.c)
    IN  /\ key_trip.step = "parsed" =>
               IF has_text
               THEN key_trip.parsed = [ok |-> TRUE, key |-> key, rest |-> << >>]
               ELSE ~ key_trip.parsed.ok
        /\ /\ key_trip.step \in {"text", "parsed"}
           /\ key.kind = "F"
           /\ key.n \in 1 .. 99
           => LET digits == << "0", "1", "2", "3", "4", "5", "6", "7", "8", "9" >>
                  decimal == IF key.n < 10 THEN << digits[key.n + 1] >>
                             ELSE << digits[(key.n \div 10) + 1],
                                     digits[(key.n % 10) + 1] >>
              IN  key_trip.text = << "<", "f" >> \o decimal \o << ">" >>

\* C16 witness: F(99) went to "<f99>" and back
C16_Witness ==
    /\ key_trip.step = "parsed"
    /\ key_trip.key = [kind |-> "F", n |-> 99]
    /\ key_trip.text = << "<", "f", "9", "9", ">" >>
    /\ key_trip.parsed.ok
    /\ key_trip.parsed.key = key_trip.key


\* C17: right after flip the read arena holds exactly what was enqueued since
\* the flip before, in the order of the calls: its events, each with the text
\* or the cursors it was enqueued with, the bytes of these texts and nothing
\* else, these cursors and nothing else; and the write arena holds no event,
\* no text byte and no cursor
C17_FlipHandsOverTheEnqueued ==
    LET read == queue.read
        since == queue_log.flipped
        \* the event as it was enqueued: its slice in place of its indices
        as_enqueued(event) ==
            IF event.type = "BufferInsertText"
            THEN [type |-> event.type, text |-> SubSeq(read.texts, event.from + 1, event.to)]
            ELSE IF event.type = "FixCursors"
            THEN [type |-> event.type,
                  cursors |-> SubSeq(read.cursors, event.from + 1, event.to)]
            ELSE event
        texts[k \in 0 .. Len(since)] ==
            IF k = 0 THEN << >>
            ELSE IF since[k].type = "BufferInsertText" THEN texts[k - 1] \o since[k].text
            ELSE texts[k - 1]
        some_cursors[k \in 0 .. Len(since)] ==
            IF k = 0 THEN << >>
            ELSE IF since[k].type = "FixCursors"
            THEN some_cursors[k - 1] \o since[k].cursors
            ELSE some_cursors[k - 1]
    IN  queue_log.op = "flip" =>
            /\ [k \in 1 .. Len(read.events) |-> as_enqueued(read.events[k])] = since
            /\ read.texts = texts[Len(since)]
            /\ read.cursors = some_cursors[Len(since)]
            /\ queue.write = NewEventQueue

(***************************************************************************)
(* Properties of the timeout of the server loop                            *)
(***************************************************************************)

\* a wait step: what the match on epoll_events_len does with the timeout
WaitMove ==
    pc = "wait" /\ pc' = "events" =>
        IF epoll_events_len' > 0 THEN timeout' = "Zero" /\ events' = events
        ELSE /\ timeout # "None"
             /\ timeout = "Zero" => timeout' = "Idle" /\ events' = events
             /\ timeout = "Idle" => timeout' = "None" /\ events' = Append(events, Idle)

\* a step that ends a loop iteration: the timeout of the next wait against the
\* timeout of the wait of this iteration
IterationMove ==
    pc \in {"events", "update", "drain"} /\ pc' = "wait" =>
        LET before == previous_timeout
            expired == IF before = "Zero" THEN "Idle" ELSE "None"
        IN  IF empty_write_event_count > 0 /\ empty_write_event_count = epoll_events_len
            THEN timeout' = before
            ELSE IF epoll_events_len > 0 THEN timeout' = "Zero"
            ELSE IF pc = "drain" THEN timeout' \in {"Zero", expired}
            ELSE timeout' = expired

\* C28: the timeout is None, Some(0) or Some(idle duration); a wait that
\* returns events sets it to Some(0), an empty wait at Some(0) sets it to
\* Some(idle duration) and pushes nothing, an empty wait at Some(idle duration)
\* pushes Idle and sets it to None, and no wait at None returns empty; from
\* one wait to the next it moves in no other way, except to Some(0) by the
\* requests of the iteration, and back to what it was when the wait returned
\* nothing but writable events on empty queues
C28_TimeoutMoves ==
    /\ [](timeout \in {"None", "Zero", "Idle"})
    /\ [][WaitMove /\ IterationMove]_vars

\* C28 witness: the idle duration expired, Idle was pushed and handed to the
\* editor, which enqueued nothing: the loop is about to block
C28_Witness ==
    /\ pc = "update"
    /\ previous_timeout = "Idle"
    /\ epoll_events_len = 0
    /\ timeout = "None"
    /\ requests = << >>
    /\ idles.armed = 1

(***************************************************************************)
(* Properties of the request drain                                         *)
(***************************************************************************)

\* the request queue changes by an enqueue at its back during the update, and
\* by the drain taking its head (Quit drops the rest)
RequestsFifo ==
    requests' # requests =>
        \/ pc = "update" /\ \E request \in RequestInputs : requests' = Append(requests, request)
        \/ pc = "drain" /\ requests' = Tail(requests)
        \/ pc = "drain" /\ Head(requests) = Quit /\ requests' = << >> /\ pc' = "done"

\* a step of the drain applies what the head request asks for
HeadRequestApplied ==
    pc = "drain" =>
        LET request == Head(requests)
        IN  /\ requests' # requests
            /\ CASE request.type = "Quit" -> pc' = "done"
                 [] request.type = "Redraw" -> need_redraw'
                 [] request.type = "WriteToClient" ->
                        /\ last_write'.happened /\ last_write'.type = "WriteToClient"
                        /\ last_write'.present = client_connections[request.handle]
                 [] request.type = "CloseClient" ->
                        /\ ~ client_connections'[request.handle]
                        /\ events' = Append(events, ConnectionClose(request.handle))
                 [] request.type = "SpawnProcess" ->
                        last_spawn'.happened /\ last_spawn'.tag = request.tag
                 [] request.type = "WriteToProcess" ->
                        /\ last_write'.happened /\ last_write'.type = "WriteToProcess"
                        /\ last_write'.present = processes[request.handle].some
                        /\ lent' = lent - 1
                 [] request.type = "CloseProcessInput" -> processes' = processes
                 [] request.type = "KillProcess" -> ~ processes'[request.handle].some

\* C29: the requests the editor enqueues during one update are handled in the
\* order they were enqueued, each step of the drain applying the effects of the
\* oldest request left, and none is left when the next wait begins
C29_RequestsInSubmissionOrder ==
    /\ [](pc = "wait" => requests = << >>)
    /\ [][RequestsFifo /\ HeadRequestApplied]_vars

\* C29 witness: of a Redraw and a KillProcess enqueued in one update the
\* Redraw has been handled, the KillProcess of a live process is next
C29_Witness ==
    /\ pc = "drain"
    /\ need_redraw
    /\ Len(requests) = 1
    /\ Head(requests).type = "KillProcess"
    /\ processes[Head(requests).handle].some

(***************************************************************************)
(* Properties of writable events on empty write queues                     *)
(***************************************************************************)

\* the wait of this iteration returned events, and every one of them handled
\* so far was counted as an empty write event, and every one still to handle
\* is a writable, not readable event of a client whose write queue is empty
OnlyEmptyWrites ==
    /\ pc = "events"
    /\ epoll_events_len > 0
    /\ empty_write_event_count + Cardinality(epoll_events) = epoll_events_len
    /\ \A e \in epoll_events :
           /\ e.kind = "client" /\ ~ e.read /\ e.write
           /\ client_write_queue[e.index] = 0

\* such an iteration goes on as such, or ends with the timeout of its wait put
\* back; the update is not called, nothing is written or pushed
NoWorkOnEmptyWrites ==
    OnlyEmptyWrites =>
        /\ pc' \in {"events", "wait"}
        /\ pc' = "events" => OnlyEmptyWrites'
        /\ pc' = "wait" => timeout' = previous_timeout
        /\ UNCHANGED <<events, need_redraw, requests, client_connections, client_write_queue,
                       processes, lent, idles>>

\* C30: when a wait returns only writable events of clients whose write queue
\* is empty, the iteration ends without a call of the editor's update and
\* without an event pushed, and the timeout is what it was before the wait
C30_EmptyWritesAreNoWork == [][NoWorkOnEmptyWrites]_vars

\* C30 witness: the idle duration was running, the wait returned one writable
\* event of a client with an empty queue, the event has been handled and
\* counted, and the loop is about to continue
C30_Witness ==
    /\ OnlyEmptyWrites
    /\ epoll_events = {}
    /\ previous_timeout = "Idle"
    /\ timeout = "Zero"
    /\ events = << >>

(***************************************************************************)
(* Properties of the end of a ClientEventIter                              *)
(***************************************************************************)

\* a step in which the live iterator ceases to exist is a finish, which
\* drains the bytes read from the connection's buffer and does not panic, or
\* it panics in the iterator's Drop
FinishedOrPanicked ==
    iter.live /\ ~ iter'.live =>
        \/ /\ iter' = NoIter
           /\ bufs' = [bufs EXCEPT
                  ![iter.buf_index + 1] = SubSeq(@, iter.read_len + 1, Len(@))]
        \/ /\ iter' = [live |-> FALSE, panicked |-> "drop"]
           /\ bufs' = bufs

\* C25: a ClientEventIter dropped without finish panics, and finish never
\* panics
C25_DropPanicsFinishDoesNot ==
    /\ [](iter # [live |-> FALSE, panicked |-> "finish"])
    /\ [][FinishedOrPanicked]_vars

\* C25 witness: an iterator that had yielded an event was dropped
C25_Witness ==
    /\ iter = [live |-> FALSE, panicked |-> "drop"]
    /\ got # << >>
    /\ bufs[batches.handle + 1] # << >>

\* C24 (as stated): a write returns false whenever the child's stdin is absent or
\* the write failed, and true only when the bytes were written.
C24_WriteTellsWhetherWritten ==
    [][process_call'.op = "write" =>
           (process_call'.returned <=>
                /\ child_stdin.some
                /\ ~ process_call'.failed
                /\ child_stdin' =
                       [child_stdin EXCEPT !.written = @ \o process_call'.buf])]_vars

\* C24: a write returns false exactly when the child has a stdin and writing to
\* it failed; with a stdin it returns true only when the bytes were written, and
\* without one it returns true and nothing is written.
C24_WriteFalseOnlyOnFailure ==
    [][process_call'.op = "write" =>
           /\ process_call'.returned <=> ~ (child_stdin.some /\ process_call'.failed)
           /\ (child_stdin.some /\ process_call'.returned) =>
                  child_stdin' = [child_stdin EXCEPT !.written = @ \o process_call'.buf]
           /\ ~ child_stdin.some => UNCHANGED child_stdin]_vars

\* C24: bytes were handed to a process without a stdin, and the write
\* returned true.
C24_Witness ==
    /\ process_call.op = "write"
    /\ process_call.buf = << 97, 98 >>
    /\ process_call.returned
    /\ ~ child_stdin.some

\* the handles of the alive buffers of the collection
AliveHandles == {h \in Handles : buffers[h + 1].alive}

\* add_new hands out the handle of a dead buffer when there is one, and otherwise
\* the handle of a buffer it has just pushed; the buffer it hands out is alive
AddNewReusesOrGrows ==
    collection_call'.op = "add_new" =>
        LET handle == collection_call'.returned
        IN  /\ IF DeadHandles # { }
               THEN handle \in DeadHandles /\ Len(buffers') = Len(buffers)
               ELSE handle = Len(buffers) /\ Len(buffers') = Len(buffers) + 1
            /\ buffers'[handle + 1].alive
            /\ buffers'[handle + 1].handle = handle
            /\ \A h \in Handles \ {handle} : buffers'[h + 1] = buffers[h + 1]

\* an alive buffer stops being alive by a remove of its handle and by nothing else
OnlyRemoveKills ==
    \A h \in AliveHandles :
        ~ buffers'[h + 1].alive =>
            collection_call'.op = "remove" /\ collection_call'.handle = h

\* C21: add_new returns the handle of a dead slot when there is one and otherwise
\* the handle of a slot it grew; the alive buffers have different handles (each
\* its index); and a handle that add_new hands out is not the handle of an alive
\* buffer, which only its removal makes of it.
C21_HandlesAreStable ==
    /\ [](\A h \in Handles : buffers[h + 1].handle = h)
    /\ [](\A g, h \in AliveHandles : buffers[g + 1].handle = buffers[h + 1].handle => g = h)
    /\ [][/\ AddNewReusesOrGrows
          /\ collection_call'.op = "add_new" => collection_call'.returned \notin AliveHandles
          /\ OnlyRemoveKills]_vars

\* C21: add_new has handed out again the handle of a buffer removed while a buffer
\* with a greater handle is alive.
C21_Witness ==
    /\ collection_call.op = "add_new"
    /\ collection_call.returned = 0
    /\ Len(buffers) = MaxBuffers
    /\ AliveHandles = Handles

\* C22: defer_remove of an alive buffer enqueues one BufferClose with its handle
\* and changes no buffer, so the buffer is still alive and has its content; a
\* buffer loses its content or its life only by remove of its handle, which
\* disposes of it.
C22_DeferRemoveKeepsTheBuffer ==
    [][/\ (collection_call'.op = "defer_remove" /\ collection_call'.handle \in AliveHandles) =>
              /\ collection_call'.enqueued = << BufferClose(collection_call'.handle) >>
              /\ buffers' = buffers
       /\ OnlyRemoveKills
       /\ (collection_call'.op = "remove" /\ collection_call'.handle \in AliveHandles) =>
              /\ buffers'[collection_call'.handle + 1] =
                     Dispose(buffers[collection_call'.handle + 1])
              /\ ~ buffers'[collection_call'.handle + 1].alive
              /\ collection_call'.enqueued = << >>]_vars

\* C22: defer_remove was called on an alive buffer with content, which it still
\* has.
C22_Witness ==
    /\ collection_call.op = "defer_remove"
    /\ collection_call.handle = 1
    /\ collection_call.enqueued = << BufferClose(1) >>
    /\ buffers[2].alive
    /\ buffers[2].content = << << 97 >>, << 98 >> >>

\* C23 (as stated): a save_to_file that returns success has written the content to
\* the file of the buffer's path, has set needs_save to false and has enqueued
\* exactly one BufferSave, whose new_path flag tells whether a new path was given;
\* and a new path given is the buffer's path after the call, with can_save true.
C23_SuccessfulSaveHasWritten ==
    [][last_call'.op = "save_to_file" =>
           /\ last_call'.returned = "Ok" =>
                  /\ path' \in FilePaths
                  /\ files'[path'] = [exists |-> TRUE, bytes |-> ContentWrite(content)]
                  /\ needs_save' = FALSE
                  /\ enqueued' = << [type |-> "BufferSave",
                                     new_path |-> last_call'.new_path.some] >>
           /\ last_call'.new_path.some =>
                  path' = last_call'.new_path.path /\ can_save']_vars

\* C26: while the one buffer that uses the word database is edited by insert_text,
\* delete_range, undo and redo, the word database holds the identifier words of
\* the buffer's content, each as many times as the content holds it.
C26_WordDatabaseHoldsTheContentWords ==
    ~ last_call.panicked => word_database = LinesWords(content, 0, Len(content))

\* C26: an undo has taken out a line break between two words, and the word
\* database holds the one word they became.
C26_Witness ==
    /\ last_call.op = "undo"
    /\ ~ last_call.panicked
    /\ content = << << 97, 98 >> >>
    /\ word_database = SetToBag({<< 97, 98 >>})

\* C27: a position that is not strictly inside a range (not after its start and
\* before its end), shifted through the insertion of the range and then through
\* its deletion, is where it was.
C27_InsertThenDeleteGivesThePositionBack ==
    (/\ shift_trip.step = "deleted"
     /\ ~ (PosLT(shift_trip.range.from, shift_trip.p) /\ PosLT(shift_trip.p, shift_trip.range.to)))
        => shift_trip.at = shift_trip.p

\* C27: a position at the start of a range of two lines went to the end of the
\* range and came back.
C27_Witness ==
    /\ shift_trip.step = "deleted"
    /\ shift_trip.p = << 0, 1 >>
    /\ shift_trip.range = [from |-> << 0, 1 >>, to |-> << 1, 2 >>]
    /\ shift_trip.at = << 0, 1 >>

(***************************************************************************)
(* Properties of the redraw latch                                          *)
(***************************************************************************)

\* a step of the loop against the redraw latch: a Redraw request sets the
\* latch and the timeout to zero; once the events of an iteration are handled
\* a set latch makes the update run, with or without events, unless the wait
\* returned nothing but writable events on empty queues; the latch is cleared
\* by the step that calls the update and by no other
RedrawLatch ==
    /\ Draining("Redraw") => need_redraw' /\ timeout' = "Zero"
    /\ ( /\ need_redraw /\ pc = "events" /\ epoll_events = {}
         /\ ~ (empty_write_event_count > 0 /\ empty_write_event_count = epoll_events_len) )
           => pc' = "update"
    /\ need_redraw /\ ~ need_redraw' => pc = "events" /\ pc' = "update"
    /\ pc = "events" /\ pc' = "update" => ~ need_redraw'

\* C32: each Redraw request sets the redraw latch and makes the next wait
\* return at once (timeout zero), so that the update runs in a following
\* iteration even when no event is pending; the latch stays set, and the
\* timeout zero, until that update runs, which clears it
C32_RedrawRunsUpdate ==
    /\ [](need_redraw /\ pc = "wait" => timeout = "Zero")
    /\ [](pc = "update" => ~ need_redraw)
    /\ [][RedrawLatch]_vars

\* C32 witness: a Redraw was handled, the next wait at timeout zero returned
\* nothing, no event is pending, and the update is about to run
C32_Witness ==
    /\ pc = "events"
    /\ need_redraw
    /\ previous_timeout = "Zero"
    /\ epoll_events_len = 0
    /\ epoll_events = {}
    /\ events = << >>
    /\ timeout = "Idle"

(***************************************************************************)
(* Properties of the timeout after the request drain                       *)
(***************************************************************************)

\* a step that ends the request drain, and with it the loop iteration
DrainEnds == pc \in {"update", "drain"} /\ pc' = "wait"

\* the timeout the wait of this iteration left: zero when it returned events,
\* the idle duration when it expired at zero, none when it expired at the idle
\* duration
WaitLeft ==
    IF epoll_events_len > 0 THEN "Zero"
    ELSE IF previous_timeout = "Zero" THEN "Idle" ELSE "None"

\* C33 as stated: after each request drain the timeout of the next wait is
\* zero if the drain produced new events, otherwise zero if the redraw latch
\* is set, otherwise the idle duration
C33_TimeoutAfterDrainOrIdle ==
    [][DrainEnds =>
           timeout' = IF events' # << >> THEN "Zero"
                      ELSE IF need_redraw' THEN "Zero" ELSE "Idle"]_vars

\* C33 amended: after each request drain the timeout of the next wait is zero
\* if the drain produced new events, otherwise zero if the redraw latch is
\* set, otherwise the timeout the wait of that iteration left
C33_TimeoutAfterDrain ==
    [][DrainEnds =>
           timeout' = IF events' # << >> THEN "Zero"
                      ELSE IF need_redraw' THEN "Zero" ELSE WaitLeft]_vars

\* C33 witness: a drain that handled a write request, produced no event and
\* set no latch has ended after the idle duration had expired: the next wait
\* blocks
C33_Witness ==
    /\ pc = "wait"
    /\ last_write.happened
    /\ events = << >>
    /\ ~ need_redraw
    /\ timeout = "None"

(***************************************************************************)
(* Properties of the connection events of a client slot                    *)
(***************************************************************************)

\* a step that pushes ConnectionOpen for a slot takes a vacant slot, and a
\* step that pushes ConnectionClose for a slot removes the connection that
\* was in it
OpenCloseAlternate ==
    \A i \in ClientHandles :
        /\ events' = Append(events, ConnectionOpen(i)) =>
               ~ client_connections[i] /\ client_connections'[i]
        /\ events' = Append(events, ConnectionClose(i)) =>
               client_connections[i] /\ ~ client_connections'[i]

\* C39: for each client handle ConnectionOpen and ConnectionClose alternate,
\* starting with ConnectionOpen: ConnectionOpen is pushed only for a vacant
\* slot, which it fills, and ConnectionClose only for a filled slot, which it
\* vacates, so that an opened connection gets at most one ConnectionClose
\* whatever CloseClient requests and I/O errors there are
C39_OpenCloseAlternate == [][OpenCloseAlternate]_vars

(***************************************************************************)
(* Properties of the write queue of a client slot                          *)
(***************************************************************************)

\* a step that removes the connection of a slot leaves the slot's write queue
\* empty, and a step that fills a slot finds it so
QueueFollowsConnection ==
    \A i \in ClientHandles :
        /\ client_connections[i] /\ ~ client_connections'[i] => client_write_queue'[i] = 0
        /\ ~ client_connections[i] /\ client_connections'[i] => client_write_queue'[i] = 0

\* C40: when a client slot is taken by a newly accepted connection its write
\* queue is empty: the buffers queued for a removed connection are released
\* at the removal, so nothing queued for an earlier connection of the slot is
\* written to a later one
C40_FreshSlotHasEmptyQueue == [][QueueFollowsConnection]_vars

(***************************************************************************)
(* Properties of the order of the platform events of one iteration         *)
(***************************************************************************)

\* the events of a list were pushed for entries of the epoll array at
\* ascending positions, each for an entry of its kind
InArrayOrder(list) ==
    /\ \A j, k \in DOMAIN list : j < k => list[j].at <= list[k].at
    /\ \A k \in DOMAIN list :
           LET e == epoll_array[list[k].at]
               event == list[k].event
           IN  CASE event.type = "ConnectionOpen" -> e.kind = "listener"
                 [] event.type \in {"ConnectionOutput", "ConnectionClose"} ->
                        e.kind = "client" /\ e.index = event.handle
                 [] OTHER -> e.kind = "process"

\* in a list no ConnectionOpen comes behind the data event of a connection
ListenerFirst(list) ==
    \A j, k \in DOMAIN list :
        j < k => ~ ( /\ list[j].event.type = "ConnectionOutput"
                     /\ list[k].event.type = "ConnectionOpen" )

\* the update is handed the events pushed, all of them and as they are
UpdateGetsPushed ==
    array_at # 0 /\ array_at' = 0 /\ pushed_events # << >> => update_events' = pushed_events

\* C31 as stated: the events pushed in one iteration are handed to the update
\* in the order the multiplexer reported what caused them, and the
\* ConnectionOpen events come before the data events of connections of the
\* same iteration
C31_ArrayOrderListenerFirst ==
    /\ [](InArrayOrder(pushed_events) /\ InArrayOrder(update_events))
    /\ [](ListenerFirst(update_events))
    /\ [][UpdateGetsPushed]_vars

\* C31 amended: the events pushed in one iteration are handed to the update in
\* the order the multiplexer reported what caused them, a ConnectionOpen behind
\* the data events of the connections reported before the listener
C31_ArrayOrder ==
    /\ [](InArrayOrder(pushed_events) /\ InArrayOrder(update_events))
    /\ [][UpdateGetsPushed]_vars

\* C31 witness: epoll reported client 1 readable, then the listener, then the
\* process; the update was handed ConnectionOutput of client 1, ConnectionOpen
\* of slot 0 and ProcessOutput, in this order
C31_Witness ==
    /\ array_at = 0
    /\ Len(update_events) = 3
    /\ update_events[1].event = ConnectionOutput(1)
    /\ update_events[2].event = ConnectionOpen(0)
    /\ update_events[3].event = ProcessOutput("a")

(***************************************************************************)
(* Properties of the text and cursor references of the read arena          *)
(***************************************************************************)

\* EditorEventText::as_str and EditorEventCursors::as_cursors: the slice
\* from .. to of the read arena's texts, or cursors
AsSlice(arena, ref) == SubSeq(arena, ref.from + 1, ref.to)

\* C34: the read arena holds the events enqueued before the last flip, and
\* the text reference of each BufferInsertText among them, and the cursors
\* reference of each FixCursors, resolves in the read arena to exactly the
\* text, or the cursors, its enqueue was given, whatever enqueues and flips
\* came before
C34_ReferencesResolve ==
    /\ Len(queue.read.events) = Len(queue_log.flipped)
    /\ \A k \in DOMAIN queue.read.events :
           LET event == queue.read.events[k]
               given == queue_log.flipped[k]
           IN  /\ event.type = given.type
               /\ event.type = "BufferInsertText" =>
                      /\ event.from <= event.to /\ event.to <= Len(queue.read.texts)
                      /\ AsSlice(queue.read.texts, event) = given.text
               /\ event.type = "FixCursors" =>
                      /\ event.from <= event.to /\ event.to <= Len(queue.read.cursors)
                      /\ AsSlice(queue.read.cursors, event) = given.cursors

\* C34 witness: after a flip the read arena holds a BufferInsertText and a
\* FixCursors whose two cursors lie behind a cursor an earlier flip left
C34_Witness ==
    /\ queue_log.op = "flip"
    /\ Len(queue.read.events) = 2
    /\ queue.read.events[1].type = "BufferInsertText"
    /\ queue.read.events[2] = [type |-> "FixCursors", from |-> 1, to |-> 3]
    /\ queue_log.flipped[2].cursors = << "c1", "c2" >>

(***************************************************************************)
(* Properties of the lines of a BufferContent                              *)
(***************************************************************************)

\* C35: after every operation on a BufferContent (new, read, insert_text,
\* delete_range, clear) the content has at least one line, and no line holds
\* a '\n'
C35_LinesWithoutNewline ==
    /\ Len(content) >= 1
    /\ \A k \in DOMAIN content : \A j \in DOMAIN content[k] : content[k][j] # LF

(***************************************************************************)
(* Properties of the insert processes                                      *)
(***************************************************************************)

InsertIndices == 1 .. MaxInsertProcesses

\* a step in which the process at i, alive before and after, is given bytes
GivenOutput(i) ==
    /\ i \in DOMAIN insert_processes
    /\ insert_spawns' = insert_spawns
    /\ Len(insert_history'[i].received) > Len(insert_history[i].received)

\* a step in which the process at i exits
Exits(i) ==
    /\ i \in DOMAIN insert_processes
    /\ insert_processes[i].alive /\ ~ insert_processes'[i].alive

\* a step in which text is inserted for the process at i
Inserts(i) ==
    /\ i \in DOMAIN insert_processes
    /\ insert_spawns' = insert_spawns
    /\ Len(insert_history'[i].inserts) > Len(insert_history[i].inserts)

\* the insertion last made for the process at i, after the step
LastInsert(i) == insert_history'[i].inserts[Len(insert_history'[i].inserts)]

RECURSIVE InsertedText(_)
InsertedText(inserts) ==
    IF inserts = << >> THEN << >> ELSE Head(inserts).text \o InsertedText(Tail(inserts))

\* a chunk of output for a process of an alive buffer: what has accumulated is
\* inserted up to its last '\n' and is then the text of the buffer there, the
\* rest stays accumulated; without a '\n' nothing is inserted
ChunkInsertsUpToNewline(i) ==
    GivenOutput(i) /\ insert_buffers[insert_processes[i].buffer_handle].alive =>
        LET before == insert_history[i].received
            bytes == SubSeq(insert_history'[i].received, Len(before) + 1,
                            Len(insert_history'[i].received))
            output == insert_processes[i].output \o bytes
            newlines == {k \in DOMAIN output : output[k] = LF}
            upto == CHOOSE k \in newlines : \A j \in newlines : j <= k
        IN  IF newlines = {}
            THEN /\ insert_processes'[i].output = output
                 /\ ~ Inserts(i)
                 /\ insert_buffers' = insert_buffers
            ELSE /\ insert_processes'[i].output = SubSeq(output, upto + 1, Len(output))
                 /\ Inserts(i)
                 /\ LastInsert(i).text = SubSeq(output, 1, upto)
                 /\ LastInsert(i).read_back = SubSeq(output, 1, upto)

\* the exit of a process of an alive buffer: what is left accumulated is
\* inserted and is then the text of the buffer there
ExitInsertsResidue(i) ==
    ( /\ Exits(i)
      /\ insert_buffers[insert_processes[i].buffer_handle].alive
      /\ insert_processes[i].output # << >> ) =>
        /\ Inserts(i)
        /\ LastInsert(i).text = insert_processes[i].output
        /\ LastInsert(i).read_back = insert_processes[i].output

\* a process of an alive buffer that has exited: the texts inserted for it are,
\* one after the other, all the bytes it gave, and each was inserted where the
\* one before it ended
WholeOutputInserted(i) ==
    ( /\ i \in DOMAIN insert_processes
      /\ ~ insert_processes[i].alive
      /\ insert_buffers[insert_processes[i].buffer_handle].alive ) =>
        LET inserts == insert_history[i].inserts
        IN  /\ InsertedText(inserts) = insert_history[i].received
            /\ \A k \in 1 .. Len(inserts) - 1 : inserts[k + 1].range.from = inserts[k].range.to

\* C36: for an insert process of an alive buffer each chunk of output inserts
\* the accumulated output up to its last newline and keeps the rest, the exit
\* inserts what is left, and over the life of the process the inserted text
\* is all its output in order, in one piece
C36_OutputInsertedInOrder ==
    /\ [](\A i \in InsertIndices : WholeOutputInserted(i))
    /\ [][\A i \in InsertIndices : ChunkInsertsUpToNewline(i) /\ ExitInsertsResidue(i)]_vars

\* the positions of the processes other than the one at i go through the
\* insertion last made for it if they are of its buffer, and stay if not
OthersShifted(i) ==
    \A j \in DOMAIN insert_processes :
        j # i =>
            insert_processes'[j].position =
                IF insert_processes[j].buffer_handle = insert_processes[i].buffer_handle
                THEN PositionInsert(insert_processes[j].position, LastInsert(i).range)
                ELSE insert_processes[j].position

\* C37: when text is inserted for an insert process, the tracked position of
\* every other insert process of the same buffer is shifted through the
\* inserted range, and the positions of the processes of other buffers stay
C37_OtherProcessesShifted ==
    [][\A i \in InsertIndices : Inserts(i) => OthersShifted(i)]_vars

(***************************************************************************)
(* Properties of the document versions                                     *)
(***************************************************************************)

\* C38: the versions of a document strictly increase within one open
\* lifetime: every textDocument/didChange sent carries a version greater than
\* that of the didOpen or didChange sent before it for the document
C38_VersionsIncrease ==
    \A h \in LspHandles :
        \A j, k \in DOMAIN lsp_sent[h] :
            j < k => lsp_sent[h][j].version < lsp_sent[h][k].version

====
